---- MODULE Spec2Model ----
(***************************************************************************)
(* Guardian threat-classification service: the pattern matcher             *)
(* (api/app/classifier.py), the analyze_text pipeline with its calls to    *)
(* the enrichment client (api/app/gemini.py, api/app/gemini_analyzer.py)   *)
(* and the retry combinator retry_with_backoff (api/app/gemini.py).        *)
(*                                                                         *)
(* Conventions.  Real numbers of the program are fixed-point integers:     *)
(* confidences and weights in thousandths (1000 = 1.0), times in           *)
(* centiseconds (100 = 1 s).  A text is a record of the attributes the     *)
(* code reads from it; the matches a regular expression yields on a text   *)
(* are an input, drawn from all ordered, non-overlapping span sequences    *)
(* over the positions 0..TextLen, as re.finditer produces them.            *)
(***************************************************************************)
EXTENDS Integers, Sequences, FiniteSets, TLC

(***************************************************************************)
(* Bounds of the model                                                     *)
(***************************************************************************)
TextLen == 3
MaxMatchesPerRule == 2
MaxRequests == 2
MaxClock == 40000
MaxBudget == 8

VARIABLES
    \* analyze_patterns (classifier.py:390-443)
    ap_pc, ap_rule, ap_pending, ap_text, threats, matched_positions,
    \* settings and module state of app.gemini
    gemini_module, gemini_api_key, gemini_enrichment_enabled,
    now, response_cache, model_calls, enrich_log,
    \* one analyze_text request and the gemini_enrich call in flight
    req, call, requests_made,
    \* retry_with_backoff
    retry_budget, request_timestamps, rb,
    \* the risk aggregation of analyze_text (classifier.py:499-571)
    sc,
    \* gemini_enrich calls in flight together on response_cache
    inflight,
    \* response_cache by age of its entries, under calls with fresh keys
    cs,
    \* the rate limiter in front of /v1/analyze (rate_limiter.py)
    rate_limiter,
    \* analyze_text on a text holding personal data (classifier.py:457-468)
    pii,
    \* the construction of ThreatIntelligence (threat_intel.py:13-146)
    ti,
    \* a call of detect_language (classifier.py:320-339)
    dl,
    \* two runs of the pattern, graph and threat-intel stages on one text
    det,
    \* calls of check_rate_limit (gemini.py:278-303)
    gl,
    \* the alerting system: its alerts, its clock and the last operation
    al,
    \* the logging client: its queue, its worker and the entries inserted
    lg,
    \* the middleware's counters: DevStats, MetricsCollector and the last request
    mw,
    \* gemini_enrich with a cache key: the last call, its arguments and its result
    ch,
    \* MemoryRateLimiter.is_allowed called on its own: the store and the last call
    ml

pattern_vars == <<ap_pc, ap_rule, ap_pending, ap_text, threats, matched_positions>>
pipeline_vars == <<gemini_module, gemini_api_key, gemini_enrichment_enabled,
                   response_cache, model_calls, enrich_log, req, call, requests_made>>
retry_vars == <<retry_budget, request_timestamps, rb>>
ext_vars == <<sc, inflight, cs, rate_limiter, pii, ti, dl, det, gl, al, lg, mw, ch, ml>>
ext_but_sc == <<inflight, cs, rate_limiter, pii, ti, dl, det, gl, al, lg, mw, ch, ml>>
ext_but_inflight == <<sc, cs, rate_limiter, pii, ti, dl, det, gl, al, lg, mw, ch, ml>>
ext_but_cs == <<sc, inflight, rate_limiter, pii, ti, dl, det, gl, al, lg, mw, ch, ml>>
ext_but_rate_limiter == <<sc, inflight, cs, pii, ti, dl, det, gl, al, lg, mw, ch, ml>>
ext_but_pii == <<sc, inflight, cs, rate_limiter, ti, dl, det, gl, al, lg, mw, ch, ml>>
ext_but_ti == <<sc, inflight, cs, rate_limiter, pii, dl, det, gl, al, lg, mw, ch, ml>>
ext_but_dl == <<sc, inflight, cs, rate_limiter, pii, ti, det, gl, al, lg, mw, ch, ml>>
ext_but_det == <<sc, inflight, cs, rate_limiter, pii, ti, dl, gl, al, lg, mw, ch, ml>>
ext_but_gl == <<sc, inflight, cs, rate_limiter, pii, ti, dl, det, al, lg, mw, ch, ml>>
ext_but_al == <<sc, inflight, cs, rate_limiter, pii, ti, dl, det, gl, lg, mw, ch, ml>>
ext_but_lg == <<sc, inflight, cs, rate_limiter, pii, ti, dl, det, gl, al, mw, ch, ml>>
ext_but_mw == <<sc, inflight, cs, rate_limiter, pii, ti, dl, det, gl, al, lg, ch, ml>>
ext_but_ch == <<sc, inflight, cs, rate_limiter, pii, ti, dl, det, gl, al, lg, mw, ml>>
ext_but_ml == <<sc, inflight, cs, rate_limiter, pii, ti, dl, det, gl, al, lg, mw, ch>>
core_vars == <<pattern_vars, pipeline_vars, retry_vars, now>>
vars == <<pattern_vars, pipeline_vars, retry_vars, now, ext_vars>>

Min(a, b) == IF a <= b THEN a ELSE b
Max(a, b) == IF a >= b THEN a ELSE b

(***************************************************************************)
(* Pattern bank and confidence scoring                                     *)
(***************************************************************************)
CATEGORY_WEIGHTS ==
    [malware_instruction |-> 950, code_injection |-> 920, prompt_injection |-> 900,
     credential_harvesting |-> 880, financial_fraud |-> 850, phishing_attempt |-> 820,
     social_engineering |-> 800, toxic_content |-> 650, hate_speech |-> 680,
     misinformation |-> 600, self_harm_risk |-> 850]

\* CATEGORY_WEIGHTS.get(category, 0.5)
CategoryWeight(category) ==
    IF category \in DOMAIN CATEGORY_WEIGHTS THEN CATEGORY_WEIGHTS[category] ELSE 500

\* Rules of THREAT_PATTERNS["en"], in the iteration order of the dict:
\* phishing_attempt/urgency_action (l.92), social_engineering/authority (l.161),
\* prompt_injection/instruction_override (l.219), pii_exfiltration/email_pattern
\* (l.227), hate_speech/discriminatory_belief (l.242).
THREAT_PATTERNS ==
    << [category |-> "phishing_attempt",   weight |-> 900, context |-> "urgency_action"],
       [category |-> "social_engineering", weight |-> 850, context |-> "authority"],
       [category |-> "prompt_injection",   weight |-> 950, context |-> "instruction_override"],
       [category |-> "pii_exfiltration",   weight |-> 600, context |-> "email_pattern"],
       [category |-> "hate_speech",        weight |-> 800, context |-> "discriminatory_belief"] >>

NumRules == Len(THREAT_PATTERNS)

\* "urgency" in context / "authority" in context
HasUrgencyContext(context) == context \in {"urgency", "urgency_action"}
HasAuthorityContext(context) == context = "authority"

\* A match: its span and whether the matched text holds a keyword of the
\* rule's context (urgent/immediately/asap/now, admin/manager/boss/ceo).
Spans == {s \in (0..TextLen) \X (0..TextLen) : s[1] < s[2]}
Matches == [start : 0..TextLen, end : 0..TextLen, keyword : BOOLEAN]

\* What calculate_confidence reads from the whole text: len(text) > 100, more
\* than one urgency word, more than one authority word.
TextAttrs == [long : BOOLEAN, multi_urgency : BOOLEAN, multi_authority : BOOLEAN]

calculate_confidence(m, pattern_info, text, category) ==
    LET c0 == (pattern_info.weight * CategoryWeight(category)) \div 1000
        c1 == IF HasUrgencyContext(pattern_info.context) /\ m.keyword
                 THEN (c0 * 110) \div 100 ELSE c0
        c2 == IF HasAuthorityContext(pattern_info.context) /\ m.keyword
                 THEN (c1 * 115) \div 100 ELSE c1
        c3 == IF category = "phishing_attempt" /\ text.multi_urgency
                 THEN (c2 * 110) \div 100 ELSE c2
        c4 == IF category = "phishing_attempt" /\ text.multi_authority
                 THEN (c3 * 105) \div 100 ELSE c3
        c5 == IF text.long THEN (c4 * 105) \div 100 ELSE c4
    IN  Min(1000, c5)

\* start <= match_start < end or start < match_end <= end, for some accepted span
Overlap(m, positions) ==
    \E p \in positions :
        \/ (p[1] <= m.start /\ m.start < p[2])
        \/ (p[1] < m.end /\ m.end <= p[2])

Threshold(category) == IF category = "social_engineering" THEN 200 ELSE 300

SocialMatches(ts) ==
    Cardinality({i \in 1..Len(ts) : ts[i].category = "social_engineering"})

ConsiderMatch_NoBreak(m, r, text, ts, positions) ==
    LET info == THREAT_PATTERNS[r]
        category == info.category
        confidence == calculate_confidence(m, info, text, category)
        boosted == IF category = "social_engineering" /\ SocialMatches(ts) > 0
                     THEN Min(950, (confidence * (1100 + 50 * SocialMatches(ts))) \div 1000)
                     ELSE confidence
        accepted == ~Overlap(m, positions) /\ confidence >= Threshold(category)
    IN  [threats |-> IF accepted
                       THEN Append(ts, [category |-> category,
                                        confidence_score |-> boosted,
                                        span |-> <<m.start, m.end>>])
                       ELSE ts,
         positions |-> IF accepted THEN positions \cup {<<m.start, m.end>>} ELSE positions,
         break |-> FALSE]

\* The body of `for match in pattern.finditer(text)` for one match of rule r:
\* the new threat list, the new span set and whether the loop breaks.
ConsiderMatch(m, r, text, ts, positions) ==
    LET info == THREAT_PATTERNS[r]
        category == info.category
        confidence == calculate_confidence(m, info, text, category)
        boosted == IF category = "social_engineering" /\ SocialMatches(ts) > 0
                     THEN Min(950, (confidence * (1100 + 50 * SocialMatches(ts))) \div 1000)
                     ELSE confidence
        accepted == ~Overlap(m, positions) /\ confidence >= Threshold(category)
    IN  [threats |-> IF accepted
                       THEN Append(ts, [category |-> category,
                                        confidence_score |-> boosted,
                                        span |-> <<m.start, m.end>>])
                       ELSE ts,
         positions |-> IF accepted THEN positions \cup {<<m.start, m.end>>} ELSE positions,
         break |-> accepted /\ category # "social_engineering"]

\* What pattern.finditer(text) can yield: spans in increasing order, no two
\* overlapping.
RECURSIVE OrderedDisjoint(_)
OrderedDisjoint(ms) ==
    IF Len(ms) <= 1 THEN TRUE
    ELSE ms[1].end <= ms[2].start /\ OrderedDisjoint(Tail(ms))

WellFormed(ms) == (\A i \in 1..Len(ms) : ms[i].start < ms[i].end) /\ OrderedDisjoint(ms)

\* The matched text of rule r can hold a context keyword only if the rule has
\* an urgency or authority context; for the other rules the flag is not read.
FinditerResults(r) ==
    {ms \in UNION {[1..n -> Matches] : n \in 0..MaxMatchesPerRule} :
        /\ WellFormed(ms)
        /\ \A i \in 1..Len(ms) :
              ms[i].keyword =>
                  \/ HasUrgencyContext(THREAT_PATTERNS[r].context)
                  \/ HasAuthorityContext(THREAT_PATTERNS[r].context)}

\* analyze_patterns as a function of the matches of every rule.
RECURSIVE ScanRule(_, _, _, _, _)
ScanRule(ms, r, text, ts, positions) ==
    IF ms = <<>> THEN [threats |-> ts, positions |-> positions]
    ELSE LET step == ConsiderMatch(Head(ms), r, text, ts, positions)
         IN  IF step.break
               THEN [threats |-> step.threats, positions |-> step.positions]
               ELSE ScanRule(Tail(ms), r, text, step.threats, step.positions)

RECURSIVE ScanRules(_, _, _, _, _)
ScanRules(table, r, text, ts, positions) ==
    IF r > NumRules THEN ts
    ELSE LET done == ScanRule(table[r], r, text, ts, positions)
         IN  ScanRules(table, r + 1, text, done.threats, done.positions)

analyze_patterns(table, text) == ScanRules(table, 1, text, <<>>, {})

(***************************************************************************)
(* analyze_patterns, one loop iteration per step                           *)
(***************************************************************************)
NoText == [long |-> FALSE, multi_urgency |-> FALSE, multi_authority |-> FALSE]

PatternInit ==
    /\ ap_pc = "idle"
    /\ ap_rule = 0
    /\ ap_pending = <<>>
    /\ ap_text = NoText
    /\ threats = <<>>
    /\ matched_positions = {}

\* threats = [], matched_positions = set(), first rule compiled and scanned
ApBegin ==
    /\ ap_pc = "idle"
    /\ \E text \in TextAttrs, ms \in FinditerResults(1) :
          /\ ap_text' = text
          /\ ap_pending' = ms
    /\ ap_pc' = "scanning"
    /\ ap_rule' = 1
    /\ threats' = <<>>
    /\ matched_positions' = {}
    /\ UNCHANGED <<pipeline_vars, retry_vars, ext_vars, now>>

\* one iteration of `for match in pattern.finditer(text)`
ApMatch ==
    /\ ap_pc = "scanning"
    /\ ap_pending # <<>>
    /\ LET step == ConsiderMatch(Head(ap_pending), ap_rule, ap_text, threats, matched_positions)
       IN  /\ threats' = step.threats
           /\ matched_positions' = step.positions
           /\ ap_pending' = IF step.break THEN <<>> ELSE Tail(ap_pending)
    /\ UNCHANGED <<ap_pc, ap_rule, ap_text, pipeline_vars, retry_vars, ext_vars, now>>

\* the next rule of the bank is compiled and scanned
ApNextRule ==
    /\ ap_pc = "scanning"
    /\ ap_pending = <<>>
    /\ ap_rule < NumRules
    /\ ap_rule' = ap_rule + 1
    /\ \E ms \in FinditerResults(ap_rule + 1) : ap_pending' = ms
    /\ UNCHANGED <<ap_pc, ap_text, threats, matched_positions, pipeline_vars, retry_vars, ext_vars, now>>

\* re.compile or finditer raises for the next rule of the bank (a rule added
\* with a malformed pattern; the hundred rules shipped all compile): no
\* handler encloses lines 402-403, the exception leaves analyze_patterns
ApRuleFails ==
    /\ ap_pc = "scanning"
    /\ ap_pending = <<>>
    /\ ap_rule < NumRules
    /\ ap_rule' = ap_rule + 1
    /\ ap_pc' = "raised"
    /\ UNCHANGED <<ap_pending, ap_text, threats, matched_positions,
                   pipeline_vars, retry_vars, ext_vars, now>>

\* return threats
ApReturn ==
    /\ ap_pc = "scanning"
    /\ ap_pending = <<>>
    /\ ap_rule = NumRules
    /\ ap_pc' = "done"
    /\ UNCHANGED <<ap_rule, ap_pending, ap_text, threats, matched_positions,
                   pipeline_vars, retry_vars, ext_vars, now>>



(***************************************************************************)
(* retry_with_backoff, check_retry_budget, check_rate_limit                *)
(***************************************************************************)
REQUEST_WINDOW == 6000
MAX_REQUESTS == 100
TIMEOUT_SECONDS == 3000

\* max_retries values a caller passes (3 is the default)
RetryChoices == {1, 3, 6}
\* random.random() * 0.1, in centiseconds: the two ends of [0, 0.1)
Jitters == {0, 9}
\* What one execution of the wrapped call can do
FuncOutcomes == {"ok", "timeout", "http_503", "http_400", "malformed"}
\* The failures the retry policy of the specification calls retryable
Retryable(kind) == kind \in {"timeout", "rate_limited", "http_429", "http_500", "http_503", "http_504"}

\* retry_budget before any assignment: the module never assigns the global
Unbound == -1

\* request_timestamps["api"] as a bag: time |-> number of entries
EmptyBag == [t \in {} |-> 0]
BagSize(b) == LET RECURSIVE Sum(_)
                  Sum(S) == IF S = {} THEN 0
                            ELSE LET t == CHOOSE x \in S : TRUE IN b[t] + Sum(S \ {t})
              IN  Sum(DOMAIN b)
BagAdd(b, t) == [x \in DOMAIN b \cup {t} |-> IF x \in DOMAIN b
                                               THEN (IF x = t THEN b[x] + 1 ELSE b[x])
                                               ELSE 1]
BagMin(b) == CHOOSE t \in DOMAIN b : \A u \in DOMAIN b : t <= u

\* 2 ** n
RECURSIVE Pow2(_)
Pow2(n) == IF n = 0 THEN 1 ELSE 2 * Pow2(n - 1)

check_rate_limit_OffByOne(stamps, t) ==
    LET kept == [x \in {y \in DOMAIN stamps : y > t - REQUEST_WINDOW} |-> stamps[x]]
    IN  IF BagSize(kept) > MAX_REQUESTS
          THEN [limited |-> TRUE, stamps |-> kept,
                wait |-> (((REQUEST_WINDOW - (t - BagMin(kept))) + 5) \div 10) * 10]
          ELSE [limited |-> FALSE, stamps |-> BagAdd(kept, t), wait |-> 0]

\* check_rate_limit at time t: the pruned list, and either the new list with
\* the call recorded or the wait time reported in the RateLimitExceeded
\* message ("{wait_time:.1f}", one decimal of a second).
check_rate_limit(stamps, t) ==
    LET kept == [x \in {y \in DOMAIN stamps : y > t - REQUEST_WINDOW} |-> stamps[x]]
    IN  IF BagSize(kept) >= MAX_REQUESTS
          THEN [limited |-> TRUE, stamps |-> kept,
                wait |-> (((REQUEST_WINDOW - (t - BagMin(kept))) + 5) \div 10) * 10]
          ELSE [limited |-> FALSE, stamps |-> BagAdd(kept, t), wait |-> 0]

\* check_retry_budget(retries_needed)
check_retry_budget(budget, needed) ==
    IF budget = Unbound THEN [exc |-> "NameError", budget |-> budget]
    ELSE IF budget < needed THEN [exc |-> "RetryBudgetExceeded", budget |-> budget]
    ELSE [exc |-> "none", budget |-> budget - needed]

BackoffWait_Capped(attempt, jitter, kind, reported) ==
    Min(1000, 100 * Pow2(attempt)) + jitter

\* wait_time = (2 ** attempt) + (random.random() * 0.1); after a
\* RateLimitExceeded, max(wait_time, the wait time of the message)
BackoffWait(attempt, jitter, kind, reported) ==
    LET wait_time == 100 * Pow2(attempt) + jitter
    IN  IF kind = "rate_limited" THEN Max(wait_time, reported) ELSE wait_time

RbIdle == [pc |-> "idle", max_retries |-> 0, limit |-> 0, attempt |-> 0,
           attempts_made |-> 0, last_failure |-> "none", reported |-> 0,
           wait |-> 0, exc |-> "none", value |-> "none"]

RetryInitFresh ==
    /\ retry_budget \in {Unbound, MaxBudget}
    /\ request_timestamps = EmptyBag
    /\ rb = RbIdle

\* The state after the budget has fallen below the default max_retries and
\* MAX_REQUESTS attempts were admitted in the current second.
RetryInitBusy ==
    /\ retry_budget = 2
    /\ request_timestamps = (0 :> MAX_REQUESTS)
    /\ rb = RbIdle

\* Entry of retry_with_backoff: the budget check and the reduction of
\* max_retries to the remaining budget.
RbCall ==
    /\ rb.pc = "idle"
    /\ \E mr \in RetryChoices :
          LET chk == check_retry_budget(retry_budget, mr)
              limit == IF chk.exc = "RetryBudgetExceeded" THEN retry_budget ELSE mr
              raises == chk.exc = "NameError" \/ (chk.exc = "RetryBudgetExceeded" /\ limit = 0)
          IN  /\ retry_budget' = chk.budget
              /\ rb' = [RbIdle EXCEPT !.pc = IF raises THEN "raised" ELSE "attempt",
                                      !.max_retries = mr,
                                      !.limit = limit,
                                      !.exc = IF raises THEN chk.exc ELSE "none"]
    /\ UNCHANGED <<request_timestamps, now, pattern_vars, pipeline_vars, ext_vars>>

RbFailed_OffByOne(kind, reported, jitter, stamps, t, made) ==
    /\ request_timestamps' = stamps
    /\ now' = t
    /\ IF rb.attempt = rb.limit
         THEN rb' = [rb EXCEPT !.pc = "raised", !.exc = "GeminiException",
                               !.attempts_made = made,
                               !.last_failure = kind, !.reported = reported]
         ELSE rb' = [rb EXCEPT !.pc = "sleeping",
                               !.attempts_made = made,
                               !.last_failure = kind, !.reported = reported,
                               !.wait = BackoffWait(rb.attempt, jitter, kind, reported)]

\* What the two except clauses do with a failed attempt
RbFailed(kind, reported, jitter, stamps, t, made) ==
    /\ request_timestamps' = stamps
    /\ now' = t
    /\ IF rb.attempt = rb.limit - 1
         THEN rb' = [rb EXCEPT !.pc = "raised", !.exc = "GeminiException",
                               !.attempts_made = made,
                               !.last_failure = kind, !.reported = reported]
         ELSE rb' = [rb EXCEPT !.pc = "sleeping",
                               !.attempts_made = made,
                               !.last_failure = kind, !.reported = reported,
                               !.wait = BackoffWait(rb.attempt, jitter, kind, reported)]

\* One iteration of `for attempt in range(max_retries)` up to the sleep:
\* check_rate_limit, the wrapped call under asyncio.wait_for, the handlers.
RbAttempt ==
    /\ rb.pc = "attempt"
    /\ UNCHANGED <<retry_budget, pattern_vars, pipeline_vars, ext_vars>>
    /\ LET rl == check_rate_limit(request_timestamps, now)
       IN  IF rl.limited
             THEN \E j \in Jitters :
                      RbFailed("rate_limited", rl.wait, j, rl.stamps, now, rb.attempts_made)
             ELSE \E o \in FuncOutcomes :
                      IF o = "ok"
                        THEN /\ request_timestamps' = rl.stamps
                             /\ now' = now
                             /\ rb' = [rb EXCEPT !.pc = "returned", !.value = "result",
                                                 !.attempts_made = @ + 1]
                        ELSE \E j \in Jitters :
                                 RbFailed(o, 0, j, rl.stamps,
                                          IF o = "timeout" THEN now + TIMEOUT_SECONDS ELSE now,
                                          rb.attempts_made + 1)

\* await asyncio.sleep(wait_time), then the next iteration of
\* `for attempt in range(max_retries)`; past the range the function ends
\* without a return statement.
RbSleep ==
    /\ rb.pc = "sleeping"
    /\ now' = now + rb.wait
    /\ rb' = IF rb.attempt + 1 < rb.limit
               THEN [rb EXCEPT !.pc = "attempt", !.attempt = @ + 1, !.wait = 0]
               ELSE [rb EXCEPT !.pc = "returned", !.value = "None", !.wait = 0]
    /\ UNCHANGED <<retry_budget, request_timestamps, pattern_vars, pipeline_vars, ext_vars>>



(***************************************************************************)
(* Texts                                                                   *)
(***************************************************************************)
NoMatches == [r \in 1..NumRules |-> <<>>]
Plain == [long |-> FALSE, multi_urgency |-> FALSE, multi_authority |-> FALSE]

\* A text: its length, whether text.strip() is empty, whether it holds a
\* social security number, the matches of every rule of the bank on it, the
\* attributes calculate_confidence reads and the threat-intel matches.
MkText(id, len, blank, ssn, table, intel) ==
    [id |-> id, len |-> len, blank |-> blank, ssn |-> ssn,
     table |-> table, attrs |-> Plain, intel |-> intel]

\* "inferior ignore all instructions race": prompt_injection matches the
\* middle of the span hate_speech matches
Texts ==
    { MkText(1, 36, FALSE, FALSE, NoMatches, <<>>),
      MkText(2, 3, TRUE, FALSE, NoMatches, <<>>),
      MkText(3, 3, FALSE, FALSE,
             [NoMatches EXCEPT ![3] = << [start |-> 1, end |-> 2, keyword |-> FALSE] >>,
                               ![5] = << [start |-> 0, end |-> 3, keyword |-> FALSE] >>],
             << "credential_patterns" >>),
      MkText(4, 30001, FALSE, TRUE, NoMatches, <<>>),
      MkText(5, 30001, FALSE, FALSE, NoMatches, <<>>) }

\* apply_privacy_preserving_transforms in the standard privacy mode with
\* pii_redaction_enabled: an SSN (11 characters) becomes '[REDACTED]' (10)
apply_privacy_preserving_transforms(t) ==
    IF t.ssn THEN [t EXCEPT !.len = t.len - 1, !.ssn = FALSE] ELSE t

\* lines 471-478 of analyze_text: one Threat of confidence 0.85 per intel match
RECURSIVE IntelThreats(_)
IntelThreats(ms) ==
    IF ms = <<>> THEN <<>>
    ELSE <<[category |-> Head(ms), confidence_score |-> 850, span |-> <<0, 0>>]>>
         \o IntelThreats(Tail(ms))

(***************************************************************************)
(* gemini_enrich (the definition in force, gemini.py:678-842)              *)
(***************************************************************************)
CACHE_TTL == 30000
MAX_TEXT_LENGTH == 30000
TickStep == 20000

NoKey == "None"
CacheKeys == {"k1"}
AnalysisTypes == {"comprehensive", "deep"}
Absent == [present |-> FALSE]

\* What the model request of GeminiAnalyzer.analyze_content can end in
ModelOutcomes == {"valid", "short_justification", "timeout", "http_429", "malformed", "auth_error"}

\* clean_cache: entries older than CACHE_TTL are deleted
clean_cache(cache, t) ==
    [k \in DOMAIN cache |->
        IF cache[k].present /\ t - cache[k].timestamp > CACHE_TTL THEN Absent ELSE cache[k]]

\* del response_cache[key]
DelKey(cache, key) ==
    IF cache[key].present THEN [cache |-> [cache EXCEPT ![key] = Absent], exc |-> "none"]
    ELSE [cache |-> cache, exc |-> "KeyError"]

\* The tuple (result, datetime.utcnow()) a call stores
CacheEntry(text, t, writer) ==
    [present |-> TRUE, for_text |-> text, timestamp |-> t,
     response_of |-> writer, stamp_of |-> writer]

CacheStore_Torn(cache, key, entry) ==
    LET old == cache[key]
    IN  [cache EXCEPT ![key] = IF old.present
                                 THEN [entry EXCEPT !.timestamp = old.timestamp,
                                                    !.stamp_of = old.stamp_of]
                                 ELSE entry]

\* response_cache[cache_key] = (result, datetime.utcnow())
CacheStore(cache, key, entry) == [cache EXCEPT ![key] = entry]

\* gemini_enrich up to its first suspension: input validation, the cache
\* lookup under cache_key, the random cache cleaning.
gemini_enrich_prefix_CacheFirst(t, atype, key, cache, time, clean) ==
    IF key # NoKey /\ cache[key].present /\ time - cache[key].timestamp < CACHE_TTL
      THEN [kind |-> "hit", cache |-> cache]
    ELSE IF t.blank \/ t.len = 0 THEN [kind |-> "ValueError", cache |-> cache]
    ELSE IF t.len > MAX_TEXT_LENGTH THEN [kind |-> "ValueError", cache |-> cache]
    ELSE IF atype \notin {"quick", "comprehensive"} THEN [kind |-> "ValueError", cache |-> cache]
    ELSE LET del == IF key # NoKey /\ cache[key].present
                      THEN DelKey(cache, key) ELSE [cache |-> cache, exc |-> "none"]
         IN  IF del.exc # "none" THEN [kind |-> del.exc, cache |-> del.cache]
             ELSE [kind |-> "await",
                   cache |-> IF clean THEN clean_cache(del.cache, time) ELSE del.cache]

gemini_enrich_prefix(t, atype, key, cache, time, clean) ==
    IF t.blank \/ t.len = 0 THEN [kind |-> "ValueError", cache |-> cache]
    ELSE IF t.len > MAX_TEXT_LENGTH THEN [kind |-> "ValueError", cache |-> cache]
    ELSE IF atype \notin {"quick", "comprehensive"} THEN [kind |-> "ValueError", cache |-> cache]
    ELSE IF key # NoKey /\ cache[key].present /\ time - cache[key].timestamp < CACHE_TTL
           THEN [kind |-> "hit", cache |-> cache]
    ELSE LET del == IF key # NoKey /\ cache[key].present
                      THEN DelKey(cache, key) ELSE [cache |-> cache, exc |-> "none"]
         IN  IF del.exc # "none" THEN [kind |-> del.exc, cache |-> del.cache]
             ELSE [kind |-> "await",
                   cache |-> IF clean THEN clean_cache(del.cache, time) ELSE del.cache]

NoCall == [pc |-> "none", caller |-> "none", text |-> 0, cache_key |-> NoKey,
           text_blank |-> FALSE, text_len |-> 0, analysis_type |-> "comprehensive",
           has_threats |-> FALSE, has_base |-> FALSE, result |-> Absent, exc |-> "none",
           key_configured |-> FALSE, called_model |-> FALSE]
NoReq == [pc |-> "idle", text |-> 0, len |-> 0, threats |-> <<>>, base_score |-> -1,
          enrich_failed |-> FALSE, exc |-> "none", risk_score |-> -1]

PipelineInit ==
    /\ gemini_module = "unloaded"
    /\ gemini_api_key \in BOOLEAN
    /\ gemini_enrichment_enabled \in BOOLEAN
    /\ response_cache = [k \in CacheKeys |-> Absent]
    /\ model_calls = <<>>
    /\ enrich_log = <<>>
    /\ req = NoReq
    /\ call = NoCall
    /\ requests_made = 0

\* import of app.gemini: with no GEMINI_API_KEY line 57 uses `logger` before
\* its import at line 60
ImportGemini ==
    /\ gemini_module = "unloaded"
    /\ gemini_module' = IF gemini_api_key THEN "loaded" ELSE "failed"
    /\ UNCHANGED <<gemini_api_key, gemini_enrichment_enabled, response_cache, model_calls,
                   enrich_log, req, call, requests_made, now, pattern_vars, retry_vars, ext_vars>>

\* settings.gemini_api_key is assigned at run time
SetApiKey ==
    /\ gemini_module = "loaded"
    /\ call.pc # "awaiting_model"
    /\ gemini_api_key' = ~gemini_api_key
    /\ UNCHANGED <<gemini_module, gemini_enrichment_enabled, response_cache, model_calls,
                   enrich_log, req, call, requests_made, now, pattern_vars, retry_vars, ext_vars>>

Tick ==
    /\ gemini_module = "loaded"
    /\ now + TickStep <= MaxClock
    /\ now' = now + TickStep
    /\ UNCHANGED <<pipeline_vars, pattern_vars, retry_vars, ext_vars>>

\* The common part of starting a gemini_enrich call
StartEnrich(caller, t, atype, key, has_threats, has_base, clean) ==
    LET pre == gemini_enrich_prefix(t, atype, key, response_cache, now, clean)
    IN  /\ response_cache' = pre.cache
        /\ enrich_log' = Append(enrich_log,
                                [caller |-> caller, text |-> t.id, has_threats |-> has_threats,
                                 has_base |-> has_base, base_ready |-> req.base_score >= 0,
                                 request |-> requests_made + 1])
        /\ model_calls' = IF pre.kind = "await"
                            THEN Append(model_calls, [text |-> t.id, time |-> now,
                                                      key_configured |-> gemini_api_key])
                            ELSE model_calls
        /\ call' = [NoCall EXCEPT
                      !.pc = CASE pre.kind \in {"ValueError", "KeyError"} -> "raised"
                               [] pre.kind = "hit" -> "returned"
                               [] OTHER -> "awaiting_model",
                      !.caller = caller, !.text = t.id, !.cache_key = key,
                      !.text_blank = t.blank, !.text_len = t.len, !.analysis_type = atype,
                      !.has_threats = has_threats, !.has_base = has_base,
                      !.exc = IF pre.kind \in {"ValueError", "KeyError"} THEN pre.kind ELSE "none",
                      !.result = IF pre.kind = "hit" THEN response_cache[key] ELSE Absent,
                      !.key_configured = gemini_api_key,
                      !.called_model = pre.kind = "await"]

\* analyze_text up to the suspension inside `await gemini_enrich(text)` of
\* line 481: privacy transforms, pattern and threat-intel threats, then the
\* call, which has no cache key, no threats and no base score.
AnalyzeText ==
    /\ gemini_module = "loaded"
    /\ call.pc # "awaiting_model"
    /\ requests_made < MaxRequests
    /\ requests_made' = requests_made + 1
    /\ \E t \in Texts, clean \in BOOLEAN :
          LET tx == apply_privacy_preserving_transforms(t)
              ths == analyze_patterns(tx.table, tx.attrs) \o IntelThreats(tx.intel)
              pre == gemini_enrich_prefix(tx, "comprehensive", NoKey, response_cache, now, clean)
          IN  /\ StartEnrich("analyze_text", tx, "comprehensive", NoKey, FALSE, FALSE, clean)
              /\ req' = [NoReq EXCEPT
                           !.pc = IF pre.kind \in {"ValueError", "KeyError"}
                                    THEN "raised" ELSE "enrich1",
                           !.text = t.id, !.len = t.len, !.threats = ths,
                           !.enrich_failed = pre.kind \in {"ValueError", "KeyError"},
                           !.exc = IF pre.kind \in {"ValueError", "KeyError"}
                                     THEN pre.kind ELSE "none"]
    /\ UNCHANGED <<gemini_module, gemini_api_key, gemini_enrichment_enabled, now,
                   pattern_vars, retry_vars, ext_vars>>

\* A caller other than analyze_text calls gemini_enrich
EnrichDirect ==
    /\ gemini_module = "loaded"
    /\ call.pc # "awaiting_model"
    /\ requests_made < MaxRequests
    /\ requests_made' = requests_made + 1
    /\ \E t \in Texts, atype \in AnalysisTypes, key \in CacheKeys \cup {NoKey},
          given \in BOOLEAN, clean \in BOOLEAN :
          StartEnrich("direct", t, atype, key, given, given, clean)
    /\ req' = NoReq
    /\ UNCHANGED <<gemini_module, gemini_api_key, gemini_enrichment_enabled, now,
                   pattern_vars, retry_vars, ext_vars>>

\* The model request ends.  A valid response is validated, cached under
\* cache_key and returned as the ThreatAnalysisResult object; anything else
\* leaves gemini_enrich as GeminiException.  In analyze_text the object
\* reaches gemini_result.get(...) of line 489, an AttributeError; an
\* exception of the call is not caught.
ModelResponds ==
    /\ call.pc = "awaiting_model"
    /\ \E o \in ModelOutcomes :
          /\ (o = "auth_error") = ~call.key_configured
          /\ LET value == CacheEntry(call.text, now, requests_made)
             IN  /\ response_cache' = IF o = "valid" /\ call.cache_key # NoKey
                                        THEN CacheStore(response_cache, call.cache_key, value)
                                        ELSE response_cache
                 /\ call' = [call EXCEPT
                               !.pc = IF o = "valid" THEN "returned" ELSE "raised",
                               !.result = IF o = "valid" THEN value ELSE Absent,
                               !.exc = IF o = "valid" THEN "none" ELSE "GeminiException"]
                 /\ req' = IF call.caller = "analyze_text"
                             THEN [req EXCEPT !.pc = "raised",
                                              !.enrich_failed = o # "valid",
                                              !.exc = IF o = "valid" THEN "AttributeError"
                                                      ELSE "GeminiException"]
                             ELSE req
    /\ UNCHANGED <<gemini_module, gemini_api_key, gemini_enrichment_enabled, model_calls,
                   enrich_log, requests_made, now, pattern_vars, retry_vars, ext_vars>>


(***************************************************************************)
(* Risk aggregation of analyze_text (classifier.py:499-571) and            *)
(* analyze_graph (classifier.py:26-85)                                     *)
(***************************************************************************)
\* threat_intel.analyze_text: the increment of a risk factor per match
IntelIncrement(category) ==
    CASE category = "get_rich_patterns" -> 300
      [] category = "credential_patterns" -> 400
      [] category = "urgency_patterns" -> 200
      [] category = "social_patterns" -> 250
      [] OTHER -> 500

IntelCategories ==
    {"get_rich_patterns", "credential_patterns", "urgency_patterns", "social_patterns",
     "known_threat"}

\* sum of intel_results["risk_factors"].values(): every factor is the sum of
\* its increments, clamped to 1.0
IntelRiskSum(ms) ==
    LET count(c) == Cardinality({i \in 1..Len(ms) : ms[i] = c})
        RECURSIVE Total(_)
        Total(S) == IF S = {} THEN 0
                    ELSE LET c == CHOOSE x \in S : TRUE
                         IN  Min(1000, count(c) * IntelIncrement(c)) + Total(S \ {c})
    IN  Total(IntelCategories)

\* The entities analyze_graph extracts from a text, by number and by number
\* of distinct strings
NoEntities == [hashtags |-> 0, hashtag_set |-> 0, urls |-> 0, url_set |-> 0,
               mentions |-> 0, mention_set |-> 0]
EntityProfiles ==
    { NoEntities,
      [NoEntities EXCEPT !.mentions = 1, !.mention_set = 1],
      [NoEntities EXCEPT !.hashtags = 5, !.hashtag_set = 1, !.urls = 2, !.url_set = 1],
      [NoEntities EXCEPT !.mentions = 4, !.mention_set = 4],
      [NoEntities EXCEPT !.mentions = 30, !.mention_set = 30],
      [NoEntities EXCEPT !.hashtags = 12, !.hashtag_set = 12, !.urls = 12, !.url_set = 12] }

analyze_graph(e) ==
    LET coordination_indicators ==
            (IF e.hashtags > 2 /\ e.hashtag_set < e.hashtags THEN 1 ELSE 0)
          + (IF e.urls > 1 /\ e.url_set = 1 THEN 1 ELSE 0)
          + (IF e.mentions > 3 THEN 1 ELSE 0)
        entity_diversity == e.hashtag_set + e.url_set + e.mention_set
        frequency_weight == e.hashtags + e.urls + e.mentions
        coordination_weight == coordination_indicators * 200
    IN  [graph_score |-> Min(1000, (entity_diversity * 400 + frequency_weight * 300
                                    + (coordination_weight * 300) \div 1000) \div 10),
         coordination_detected |-> coordination_indicators > 0,
         risk_factors |-> 3]

\* lines 507-530: the loop over the threats, with category_scores and
\* category_counts as functions on the categories met so far
RECURSIVE CategoryScores(_, _, _)
CategoryScores(ts, scores, counts) ==
    IF ts = <<>> THEN scores
    ELSE LET category == Head(ts).category
             confidence == Head(ts).confidence_score
             n == IF category \in DOMAIN counts THEN counts[category] + 1 ELSE 1
             counts2 == [c \in DOMAIN counts \cup {category} |->
                            IF c = category THEN n ELSE counts[c]]
             w0 == CategoryWeight(category)
             category_weight == IF category = "social_engineering"
                                  THEN (w0 * (1000 + 150 * (n - 1))) \div 1000 ELSE w0
             first == (confidence * category_weight) \div 1000
             again == Min(950, (first * (1000 + 100 * (n - 1))) \div 1000)
             scores2 == [c \in DOMAIN scores \cup {category} |->
                            IF c # category THEN scores[c]
                            ELSE IF category \in DOMAIN scores
                                   THEN Max(scores[category], again) ELSE first]
         IN  CategoryScores(Tail(ts), scores2, counts2)

\* lines 499-543
WeightedBaseScore(ts, intel_risk_sum) ==
    IF ts = <<>> THEN 0
    ELSE LET scores == CategoryScores(ts, [c \in {} |-> 0], [c \in {} |-> 0])
             RECURSIVE Sum(_)
             Sum(S) == IF S = {} THEN 0
                       ELSE LET c == CHOOSE x \in S : TRUE
                            IN  (scores[c] * CategoryWeight(c)) \div 1000 + Sum(S \ {c})
             weighted_sum == Sum(DOMAIN scores) + intel_risk_sum
         IN  Min(100, (weighted_sum * 70) \div 1000)

CoordinationConfidence_Unclamped(g) == g.graph_score + 300

\* line 555: min(0.9, graph_score + 0.3)
CoordinationConfidence(g) == Min(900, g.graph_score + 300)

\* lines 565-571
GraphRiskIncrease(g) ==
    LET graph_weight == IF g.coordination_detected THEN 25 ELSE 20
    IN  (g.graph_score * graph_weight * (10 + g.risk_factors)) \div 10000

\* The matches of the rule bank on the texts the aggregation is run on
Hit(a, b, k) == [start |-> a, end |-> b, keyword |-> k]
ScoreTables ==
    { NoMatches,
      [NoMatches EXCEPT ![1] = << Hit(0, 1, TRUE) >>],
      [NoMatches EXCEPT ![2] = << Hit(0, 1, TRUE), Hit(1, 2, TRUE), Hit(2, 3, TRUE) >>],
      [NoMatches EXCEPT ![3] = << Hit(1, 2, FALSE) >>, ![5] = << Hit(0, 3, FALSE) >>],
      [NoMatches EXCEPT ![4] = << Hit(0, 1, FALSE) >>],
      [NoMatches EXCEPT ![1] = << Hit(0, 1, TRUE) >>, ![2] = << Hit(1, 2, TRUE) >>,
                        ![3] = << Hit(2, 3, FALSE) >>] }
IntelMatches ==
    { <<>>, << "credential_patterns" >>,
      << "get_rich_patterns", "credential_patterns", "credential_patterns",
         "credential_patterns", "known_threat" >> }

ScIdle == [pc |-> "idle", found |-> <<>>, threats |-> <<>>, intel |-> <<>>,
           graph |-> analyze_graph(NoEntities), base_score |-> 0]

\* lines 468-478 and 499-543: the threats of the patterns and of threat
\* intelligence, then the weighted score
ScoreThreats ==
    /\ sc.pc = "idle"
    /\ \E table \in ScoreTables, text \in TextAttrs, ms \in IntelMatches, e \in EntityProfiles :
          LET ts == analyze_patterns(table, text) \o IntelThreats(ms)
          IN  sc' = [pc |-> "weighted", found |-> ts, threats |-> ts, intel |-> ms,
                     graph |-> analyze_graph(e),
                     base_score |-> WeightedBaseScore(ts, IntelRiskSum(ms))]
    /\ UNCHANGED <<core_vars, ext_but_sc>>

\* lines 545-571: the coordinated_behavior threat and the graph increase
ScoreGraph ==
    /\ sc.pc = "weighted"
    /\ sc' = [sc EXCEPT
                !.pc = "scored",
                !.threats = IF sc.graph.coordination_detected
                              THEN Append(@, [category |-> "coordinated_behavior",
                                              confidence_score |->
                                                  CoordinationConfidence(sc.graph),
                                              span |-> <<0, 0>>])
                              ELSE @,
                !.base_score = IF sc.graph.graph_score > 0
                                 THEN Min(100, @ + GraphRiskIncrease(sc.graph)) ELSE @]
    /\ UNCHANGED <<core_vars, ext_but_sc>>

(***************************************************************************)
(* gemini_enrich calls in flight together (gemini.py:678-842)              *)
(***************************************************************************)
MaxInflight == 3
Calls == 1..MaxInflight

NoInflight == [i \in Calls |-> [pc |-> "idle", text |-> 0, cache_key |-> NoKey,
                                exc |-> "none", result |-> Absent]]

\* The texts that pass the validation of gemini_enrich
ValidTexts == {t \in Texts : ~t.blank /\ t.len > 0 /\ t.len <= MAX_TEXT_LENGTH}

\* Call i from its entry to the suspension in `await analyzer.analyze_content`:
\* the event loop runs this stretch without interleaving another call
CcStart(i) ==
    /\ inflight[i].pc = "idle"
    /\ \E t \in ValidTexts, key \in CacheKeys \cup {NoKey}, clean \in BOOLEAN :
          LET pre == gemini_enrich_prefix(t, "comprehensive", key, response_cache, now, clean)
          IN  /\ response_cache' = pre.cache
              /\ inflight' = [inflight EXCEPT ![i] =
                    [pc |-> CASE pre.kind = "hit" -> "returned"
                              [] pre.kind = "await" -> "awaiting"
                              [] OTHER -> "raised",
                     text |-> t.id, cache_key |-> key,
                     exc |-> IF pre.kind \in {"hit", "await"} THEN "none" ELSE pre.kind,
                     result |-> IF pre.kind = "hit" THEN response_cache[key] ELSE Absent]]
    /\ UNCHANGED <<gemini_module, gemini_api_key, gemini_enrichment_enabled, model_calls,
                   enrich_log, req, call, requests_made, now, pattern_vars, retry_vars,
                   ext_but_inflight>>

\* Call i from the answer of the model to its return: validation, the store
\* under cache_key, or GeminiException
CcRespond(i) ==
    /\ inflight[i].pc = "awaiting"
    /\ \E o \in {"valid", "timeout"} :
          LET entry == CacheEntry(inflight[i].text, now, i)
          IN  /\ response_cache' = IF o = "valid" /\ inflight[i].cache_key # NoKey
                                     THEN CacheStore(response_cache, inflight[i].cache_key, entry)
                                     ELSE response_cache
              /\ inflight' = [inflight EXCEPT ![i] =
                    [@ EXCEPT !.pc = IF o = "valid" THEN "returned" ELSE "raised",
                              !.exc = IF o = "valid" THEN "none" ELSE "GeminiException",
                              !.result = IF o = "valid" THEN entry ELSE Absent]]
    /\ UNCHANGED <<gemini_module, gemini_api_key, gemini_enrichment_enabled, model_calls,
                   enrich_log, req, call, requests_made, now, pattern_vars, retry_vars,
                   ext_but_inflight>>

CcStartSome == \E i \in Calls : CcStart(i)
CcRespondSome == \E i \in Calls : CcRespond(i)

\* The module is imported with a key configured
PipelineLoaded ==
    /\ gemini_module = "loaded"
    /\ gemini_api_key = TRUE
    /\ gemini_enrichment_enabled = TRUE
    /\ response_cache = [k \in CacheKeys |-> Absent]
    /\ model_calls = <<>>
    /\ enrich_log = <<>>
    /\ req = NoReq
    /\ call = NoCall
    /\ requests_made = 0

(***************************************************************************)
(* The size of response_cache (gemini.py:345-374, 762-799)                 *)
(***************************************************************************)
MAX_CACHE_SIZE == 1000
MaxStores == 3

\* The oldest n entries of a bag of timestamps are removed
RECURSIVE DropOldest(_, _)
DropOldest(b, n) ==
    IF n <= 0 \/ DOMAIN b = {} THEN b
    ELSE LET t == BagMin(b)
             rest == [x \in DOMAIN b \ {t} |-> b[x]]
         IN  IF b[t] > n THEN [b EXCEPT ![t] = b[t] - n]
             ELSE DropOldest(rest, n - b[t])

\* clean_cache on the timestamps of the entries: the expired entries go,
\* then the oldest ones beyond MAX_CACHE_SIZE
CleanCacheBySize(b, t) ==
    LET live == [x \in {y \in DOMAIN b : ~(t - y > CACHE_TTL)} |-> b[x]]
    IN  IF BagSize(live) > MAX_CACHE_SIZE
          THEN DropOldest(live, BagSize(live) - MAX_CACHE_SIZE) ELSE live

CsIdle == [pc |-> "idle", stamps |-> EmptyBag, calls |-> 0]

\* A call with a cache key not in the cache, up to the suspension: a miss,
\* then clean_cache with probability 0.1
CsStart ==
    /\ cs.pc = "idle"
    /\ cs.calls < MaxStores
    /\ \E clean \in BOOLEAN :
          cs' = [cs EXCEPT !.pc = "awaiting", !.calls = @ + 1,
                           !.stamps = IF clean THEN CleanCacheBySize(@, now) ELSE @]
    /\ UNCHANGED <<core_vars, ext_but_cs>>

\* The model answers: a valid result is stored under the key
CsRespond ==
    /\ cs.pc = "awaiting"
    /\ \E o \in {"valid", "timeout"} :
          cs' = [cs EXCEPT !.pc = "idle",
                           !.stamps = IF o = "valid" THEN BagAdd(@, now) ELSE @]
    /\ UNCHANGED <<core_vars, ext_but_cs>>

\* The cache is empty, or holds MAX_CACHE_SIZE entries stored just now
CsInit == cs = CsIdle \/ cs = [CsIdle EXCEPT !.stamps = (0 :> MAX_CACHE_SIZE)]

(***************************************************************************)
(* Rate limiting of /v1/analyze for one API key (rate_limiter.py), for     *)
(* requests of clients other than a local one in development               *)
(***************************************************************************)
RATE_LIMIT_WINDOW_SECONDS == 60
CLEANUP_INTERVAL == 300
CLEANUP_MAX_AGE == 3600
MaxRlRequests == 4
MaxRlTicks == 2
\* DEFAULT_RATE_LIMIT_PER_KEY as the environment sets it
RateLimits == {2, 3}
\* The time between two requests, in centiseconds: none is a further choice
RlSteps == {100, 30000}

\* int(time.time())
Seconds(t) == t \div 100

RECURSIVE KeepYounger(_, _, _)
KeepYounger(stamps, t, age) ==
    IF stamps = <<>> THEN <<>>
    ELSE IF t - Head(stamps) < age THEN <<Head(stamps)>> \o KeepYounger(Tail(stamps), t, age)
    ELSE KeepYounger(Tail(stamps), t, age)

\* MemoryRateLimiter._cleanup_expired for the one key of the store
CleanupExpired(m, t) ==
    IF t - m.last_cleanup < CLEANUP_INTERVAL THEN m
    ELSE LET kept == KeepYounger(m.stamps, t, CLEANUP_MAX_AGE)
         IN  [m EXCEPT !.stamps = kept,
                       !.present = m.present /\ kept # <<>>,
                       !.last_cleanup = t]

\* MemoryRateLimiter.is_allowed: the store after the call and the result,
\* or the KeyError of line 117 when the cleanup deleted the key
MemoryIsAllowed(m, limit, window, t) ==
    LET m1 == IF m.present THEN m ELSE [m EXCEPT !.present = TRUE, !.stamps = <<>>]
        m2 == CleanupExpired(m1, t)
        live == KeepYounger(m2.stamps, t, window)
        current_count == Len(live)
        allowed == current_count < limit
        m3 == [m2 EXCEPT !.stamps = IF allowed THEN Append(live, t) ELSE live]
    IN  IF ~m2.present
          THEN [store |-> m2, exc |-> "KeyError", allowed |-> FALSE, remaining |-> 0,
                retry_after |-> 0]
          ELSE [store |-> m3, exc |-> "none", allowed |-> allowed,
                remaining |-> Max(0, limit - (current_count + 1)),
                retry_after |-> IF ~allowed /\ m3.stamps # <<>>
                                  THEN Max(1, (Head(m3.stamps) + window) - t) ELSE 0]

\* RedisRateLimiter.is_allowed on the sorted set of the key, whose members
\* are the strings str(now): zremrangebyscore, zadd, zcard
RedisIsAllowed(zset, limit, window, t) ==
    LET window_start == t - window
        kept == {x \in zset : x > window_start}
        added == kept \cup {t}
        current_count == Cardinality(added)
        allowed == current_count <= limit
    IN  [zset |-> added, exc |-> "none", allowed |-> allowed,
         remaining |-> Max(0, limit - current_count),
         retry_after |-> IF allowed THEN 0
                         ELSE Max(1, (CHOOSE x \in added : \A y \in added : x <= y)
                                      - window_start)]

\* CombinedRateLimiter.check_rate_limit for a request carrying the API key.
\* With the memory limiter, `await limiter.is_allowed(...)` runs the
\* synchronous is_allowed and then fails on awaiting its result (TypeError),
\* or is_allowed raises; the handler of line 230 calls is_allowed again.
CheckRateLimit(r, t) ==
    IF r.backend = "redis"
      THEN LET res == RedisIsAllowed(r.zset, r.limit, RATE_LIMIT_WINDOW_SECONDS, t)
           IN  [zset |-> res.zset, store |-> r.store, exc |-> res.exc,
                allowed |-> res.allowed, remaining |-> res.remaining]
      ELSE LET first == MemoryIsAllowed(r.store, r.limit, RATE_LIMIT_WINDOW_SECONDS, t)
               again == MemoryIsAllowed(first.store, r.limit, RATE_LIMIT_WINDOW_SECONDS, t)
           IN  [zset |-> r.zset, store |-> again.store, exc |-> again.exc,
                allowed |-> again.allowed, remaining |-> again.remaining]

RlIdle == [backend |-> "memory", limit |-> 0, zset |-> {},
           store |-> [present |-> FALSE, stamps |-> <<>>, last_cleanup |-> 0],
           served |-> <<>>, handler_runs |-> 0, ticks |-> 0]

\* The application starts with Redis reachable or not, and a per-key limit
RlInit == \E b \in {"redis", "memory"}, n \in RateLimits :
              rate_limiter = [RlIdle EXCEPT !.backend = b, !.limit = n]

\* rate_limit_combined.wrapper for one request with the API key: 429 with
\* the X-RateLimit headers, or the handler
RlRequest ==
    /\ Len(rate_limiter.served) < MaxRlRequests
    /\ LET t == Seconds(now)
           res == CheckRateLimit(rate_limiter, t)
           status == IF res.exc # "none" THEN 500 ELSE IF res.allowed THEN 200 ELSE 429
       IN  rate_limiter' = [rate_limiter EXCEPT !.zset = res.zset, !.store = res.store,
                            !.served = Append(@, [status |-> status, at |-> t,
                                                  headers |-> status = 429,
                                                  remaining |-> res.remaining]),
                            !.handler_runs = IF status = 200 THEN @ + 1 ELSE @]
    /\ UNCHANGED <<core_vars, ext_but_rate_limiter>>

\* Time passes between two requests
RlTick ==
    /\ rate_limiter.ticks < MaxRlTicks
    /\ \E dt \in RlSteps : now' = now + dt
    /\ rate_limiter' = [rate_limiter EXCEPT !.ticks = @ + 1]
    /\ UNCHANGED <<pattern_vars, pipeline_vars, retry_vars, ext_but_rate_limiter>>

(***************************************************************************)
(* Personal data: redaction (privacy_utils.py:5-51) before the             *)
(* pii_exfiltration rules (classifier.py:224-229) in analyze_text          *)
(***************************************************************************)
MaxTokens == 3
\* A text is a sequence of tokens: a word, or an item of personal data as
\* the patterns of compile_pii_patterns recognise it
PiiKinds == {"email", "credit_card", "ssn"}
TokenKinds == {"word"} \cup PiiKinds
PiiTexts == UNION {[1..n -> TokenKinds] : n \in 1..MaxTokens}
PrivacyModes == {"standard", "strict", "minimal"}
\* settings.pii_patterns
PII_PATTERNS == {"email", "phone", "ip", "credit_card", "ssn"}

\* re.sub(r'\b\d+\b', '[NUMBER]', text): the digit groups of a card number or
\* an SSN become [NUMBER]
KAnonymize(text) ==
    [i \in DOMAIN text |-> IF text[i] \in {"credit_card", "ssn"} THEN "numbers" ELSE text[i]]

\* redact_pii
redact_pii(text, enabled, redaction_enabled) ==
    IF ~redaction_enabled THEN text
    ELSE [i \in DOMAIN text |-> IF text[i] \in enabled THEN "redacted" ELSE text[i]]

\* apply_privacy_preserving_transforms on a token sequence
PrivacyTransform(text, mode, redaction_enabled) ==
    CASE mode = "strict" -> redact_pii(KAnonymize(text), PII_PATTERNS, redaction_enabled)
      [] mode = "minimal" -> redact_pii(text, {"ssn", "credit_card"}, redaction_enabled)
      [] OTHER -> redact_pii(text, PII_PATTERNS, redaction_enabled)

\* The pii_exfiltration rules, in their order
PII_RULES ==
    << [category |-> "pii_exfiltration", weight |-> 900, context |-> "ssn_pattern", kind |-> "ssn"],
       [category |-> "pii_exfiltration", weight |-> 800, context |-> "credit_card_pattern",
        kind |-> "credit_card"],
       [category |-> "pii_exfiltration", weight |-> 600, context |-> "email_pattern",
        kind |-> "email"] >>

\* analyze_patterns restricted to the pii_exfiltration rules: the first
\* match of a rule that reaches the threshold is a threat and ends the rule
RECURSIVE PiiThreats(_, _)
PiiThreats(text, r) ==
    IF r > Len(PII_RULES) THEN <<>>
    ELSE LET info == PII_RULES[r]
             hits == {i \in DOMAIN text : text[i] = info.kind}
             first == CHOOSE i \in hits : \A j \in hits : i <= j
             confidence == calculate_confidence([start |-> 0, end |-> 1, keyword |-> FALSE],
                                                info, Plain, info.category)
         IN  (IF hits # {} /\ confidence >= Threshold(info.category)
                THEN <<[category |-> info.category, confidence_score |-> confidence,
                        span |-> <<first - 1, first>>]>>
                ELSE <<>>)
             \o PiiThreats(text, r + 1)

PiiIdle == [pc |-> "idle", given |-> <<>>, text |-> <<>>, threats |-> <<>>,
            privacy_mode |-> "standard", pii_redaction_enabled |-> TRUE]

\* The environment sets PRIVACY_MODE and PII_REDACTION_ENABLED
PiiInit == \E mode \in PrivacyModes, on \in BOOLEAN :
               pii = [PiiIdle EXCEPT !.privacy_mode = mode, !.pii_redaction_enabled = on]

\* analyze_text lines 457-459: text = privacy_result["text"]
PiiTransform ==
    /\ pii.pc = "idle"
    /\ \E t \in PiiTexts :
          pii' = [pii EXCEPT !.pc = "transformed", !.given = t,
                             !.text = PrivacyTransform(t, pii.privacy_mode,
                                                       pii.pii_redaction_enabled)]
    /\ UNCHANGED <<core_vars, ext_but_pii>>

\* analyze_text line 468: threats = analyze_patterns(text, detected_language)
PiiAnalyze ==
    /\ pii.pc = "transformed"
    /\ pii' = [pii EXCEPT !.pc = "analyzed", !.threats = PiiThreats(pii.text, 1)]
    /\ UNCHANGED <<core_vars, ext_but_pii>>

(***************************************************************************)
(* ThreatIntelligence._load_external_intel and _fetch_external_intel       *)
(* (threat_intel.py:53-146)                                                *)
(***************************************************************************)
\* What the constructor finds at data/threat_intel_cache.json: no file, a
\* file older than the TTL, or a file within the TTL that holds the JSON
\* written earlier, text that is not JSON, bytes that are not UTF-8, or
\* that cannot be opened
CacheFiles == {"missing", "stale", "fresh_valid", "fresh_bad_json", "fresh_bad_encoding",
               "fresh_io_error"}
UnreadableCacheFiles == {"fresh_bad_json", "fresh_bad_encoding", "fresh_io_error"}
\* A feed request: not made (no PhishTank key), answered, or failing
FeedOutcomes == {"skipped", "ok", "fails"}

NoIntel == [loaded |-> FALSE, suspicious_domains |-> {}]
CachedIntel == [loaded |-> TRUE, suspicious_domains |-> {"cached.example"}]
\* lines 76-80
EmptyIntel == [loaded |-> TRUE, suspicious_domains |-> {}]

\* _fetch_external_intel: every request and every entry is inside a try
\* whose handler logs; the domains of the feeds that answered are returned
fetch_external_intel(phishtank, openphish) ==
    [loaded |-> TRUE,
     suspicious_domains |-> (IF phishtank = "ok" THEN {"phishtank.example"} ELSE {})
                            \cup (IF openphish = "ok" THEN {"openphish.example"} ELSE {})]

\* _load_external_intel in the environment e: the intel the object ends up
\* with, the number of calls of _fetch_external_intel, and the exception that
\* leaves the constructor
load_external_intel(e) ==
    LET fetched == fetch_external_intel(e.phishtank, e.openphish)
    IN  IF ~e.mkdir_ok
          THEN [external_intel |-> EmptyIntel, fetches |-> 0, exc |-> "none"]
        ELSE IF e.cache_file = "fresh_valid"
          THEN [external_intel |-> CachedIntel, fetches |-> 0, exc |-> "none"]
        ELSE IF e.cache_file \in {"fresh_bad_json", "fresh_io_error"}
          \* except (json.JSONDecodeError, IOError)
          THEN [external_intel |-> fetched, fetches |-> 1, exc |-> "none"]
        ELSE IF e.cache_file = "fresh_bad_encoding"
          \* UnicodeDecodeError reaches the handler of line 74
          THEN [external_intel |-> EmptyIntel, fetches |-> 0, exc |-> "none"]
        \* no file or a stale one: fetch and write the file; a failing write
        \* (IOError) fetches again
        ELSE [external_intel |-> fetched, fetches |-> IF e.write_ok THEN 1 ELSE 2,
              exc |-> "none"]

TiIdle == [pc |-> "idle", env |-> [mkdir_ok |-> TRUE, cache_file |-> "missing",
                                   phishtank |-> "skipped", openphish |-> "ok",
                                   write_ok |-> TRUE],
           external_intel |-> NoIntel, fetches |-> 0, exc |-> "none"]

TiInit ==
    \E m \in BOOLEAN, c \in CacheFiles, pt \in FeedOutcomes, op \in {"ok", "fails"},
       w \in BOOLEAN :
        ti = [TiIdle EXCEPT !.pc = "importing",
                            !.env = [mkdir_ok |-> m, cache_file |-> c, phishtank |-> pt,
                                     openphish |-> op, write_ok |-> w]]

\* threat_intel = ThreatIntelligence() of line 208
TiConstruct ==
    /\ ti.pc = "importing"
    /\ LET r == load_external_intel(ti.env)
       IN  ti' = [ti EXCEPT !.pc = IF r.exc = "none" THEN "constructed" ELSE "raised",
                            !.external_intel = r.external_intel,
                            !.fetches = r.fetches, !.exc = r.exc]
    /\ UNCHANGED <<core_vars, ext_but_ti>>

(***************************************************************************)
(* detect_language (classifier.py:320-339)                                 *)
(***************************************************************************)
MaxChars == 5
\* A character is a word character (\w), white space, or anything else
CharKinds == {"w", " ", "."}
\* The argument: a string, or a value without .lower() such as None
LangTexts ==
    [is_str : {TRUE}, chars : UNION {[1..n -> CharKinds] : n \in 0..MaxChars}]
    \cup {[is_str |-> FALSE, chars |-> <<>>]}
SupportedLanguages == {"en", "es", "fr", "de", "pt"}
\* What langdetect.detect does with the cleaned text
DetectorOutcomes == SupportedLanguages \cup {"it", "ja", "LangDetectException"}

\* re.sub(r'[^\w\s]', ' ', text.lower())
ReplacePunctuation(chars) ==
    [i \in DOMAIN chars |-> IF chars[i] = "." THEN " " ELSE chars[i]]

\* len(re.sub(r'\s+', ' ', t).strip().split()): the runs of word characters
TokenCount(chars) ==
    Cardinality({i \in DOMAIN chars :
                    chars[i] = "w" /\ (i = 1 \/ chars[i - 1] # "w")})

detect_language_Unmapped(text, outcome) ==
    IF ~text.is_str THEN [value |-> "en", exc |-> "none", detected |-> "none"]
    ELSE IF TokenCount(ReplacePunctuation(text.chars)) < 3
      THEN [value |-> "en", exc |-> "none", detected |-> "none"]
    ELSE IF outcome = "LangDetectException"
      THEN [value |-> "en", exc |-> "none", detected |-> outcome]
    ELSE [value |-> outcome, exc |-> "none", detected |-> outcome]

\* detect_language: what it returns, the exception leaving it, and what the
\* detector answered if it was asked.  text.lower() on a value that is not a
\* string and a failing detector end in the handler of line 338.
detect_language(text, outcome) ==
    IF ~text.is_str THEN [value |-> "en", exc |-> "none", detected |-> "none"]
    ELSE IF TokenCount(ReplacePunctuation(text.chars)) < 3
      THEN [value |-> "en", exc |-> "none", detected |-> "none"]
    ELSE IF outcome = "LangDetectException"
      THEN [value |-> "en", exc |-> "none", detected |-> outcome]
    ELSE [value |-> IF outcome \in SupportedLanguages THEN outcome ELSE "en",
          exc |-> "none", detected |-> outcome]

DlIdle == [pc |-> "idle", text |-> [is_str |-> TRUE, chars |-> <<>>], value |-> "none",
           exc |-> "none", detected |-> "none"]

\* One call of detect_language
DetectLanguage ==
    /\ dl.pc = "idle"
    /\ \E text \in LangTexts, outcome \in DetectorOutcomes :
          LET r == detect_language(text, outcome)
          IN  dl' = [dl EXCEPT !.pc = IF r.exc = "none" THEN "returned" ELSE "raised",
                               !.text = text, !.value = r.value, !.exc = r.exc,
                               !.detected = r.detected]
    /\ UNCHANGED <<core_vars, ext_but_dl>>

(***************************************************************************)
(* The pattern, graph and threat-intel stages run again on the same text   *)
(* (classifier.py:26-85, 390-443; threat_intel.py:148-205)                 *)
(***************************************************************************)
MaxRuns == 2

\* threats = [] and matched_positions = set() of lines 395-396, and results
\* = {...} of threat_intel.py:153-162: what a call starts from, whatever the
\* call before it left
FreshState_Kept(left) == left

FreshState(left) == [threats |-> <<>>, positions |-> {}, matches |-> <<>>]

\* The spans of the threats of a call
SpansOf(ts) == {ts[i].span : i \in DOMAIN ts}

\* One run of the three stages on the text `input`, starting from `start`
RunStages(input, start) ==
    LET ts == ScanRules(input.table, 1, input.attrs, start.threats, start.positions)
        ms == start.matches \o input.intel
    IN  [threats |-> ts, positions |-> SpansOf(ts), matches |-> ms,
         intel_risk_sum |-> IntelRiskSum(ms),
         graph_score |-> analyze_graph(input.entities).graph_score]

DetIdle == [input |-> [table |-> NoMatches, attrs |-> Plain, intel |-> <<>>,
                       entities |-> NoEntities],
            runs |-> <<>>]

\* The text the stages are given, by what they find in it
DetInit ==
    \E table \in ScoreTables, text \in TextAttrs, ms \in IntelMatches, e \in EntityProfiles :
        det = [DetIdle EXCEPT !.input = [table |-> table, attrs |-> text, intel |-> ms,
                                         entities |-> e]]

\* analyze_patterns(text, lang), analyze_graph(text) and
\* threat_intel.analyze_text(text) are called once more
DetRun ==
    /\ Len(det.runs) < MaxRuns
    /\ LET left == IF det.runs = <<>> THEN [threats |-> <<>>, positions |-> {}, matches |-> <<>>]
                   ELSE [threats |-> det.runs[Len(det.runs)].threats,
                         positions |-> det.runs[Len(det.runs)].positions,
                         matches |-> det.runs[Len(det.runs)].matches]
       IN  det' = [det EXCEPT !.runs = Append(@, RunStages(det.input, FreshState(left)))]
    /\ UNCHANGED <<core_vars, ext_but_det>>


(***************************************************************************)
(* check_rate_limit called on its own (gemini.py:278-303)                  *)
(***************************************************************************)
MaxGlSteps == 5
\* The time between two calls, in centiseconds
GlSteps == {3000, 6000}
\* request_timestamps["api"] when the calls begin: stamps of the last second
BusyStamps == {EmptyBag, (0 :> MAX_REQUESTS - 2), (0 :> MAX_REQUESTS - 1), (0 :> MAX_REQUESTS)}

GlIdle == [steps |-> 0, called |-> FALSE, at |-> 0, exc |-> "none", before |-> EmptyBag]

\* check_rate_limit()
GlCall ==
    /\ gl.steps < MaxGlSteps
    /\ LET r == check_rate_limit(request_timestamps, now)
       IN  /\ request_timestamps' = r.stamps
           /\ gl' = [steps |-> gl.steps + 1, called |-> TRUE, at |-> now,
                     exc |-> IF r.limited THEN "RateLimitExceeded" ELSE "none",
                     before |-> request_timestamps]
    /\ UNCHANGED <<pattern_vars, pipeline_vars, retry_budget, rb, now, ext_but_gl>>

\* Time passes between two calls
GlTick ==
    /\ gl.steps < MaxGlSteps
    /\ \E dt \in GlSteps : now' = now + dt
    /\ gl' = [gl EXCEPT !.steps = @ + 1]
    /\ UNCHANGED <<pattern_vars, pipeline_vars, retry_vars, ext_but_gl>>

(***************************************************************************)
(* analyze_patterns on short texts, one loop iteration per step            *)
(***************************************************************************)
ShortLen == 2
ShortMatches == 2
\* What pattern.finditer yields on a text of ShortLen characters
ShortSpans == [start : 0..ShortLen, end : 0..ShortLen, keyword : BOOLEAN]
\* The sequences of n matches in increasing order, no two overlapping, the
\* first starting at `from` or later
RECURSIVE ShortSeqs(_, _)
ShortSeqs(n, from) ==
    IF n = 0 THEN {<<>>}
    ELSE UNION {{<<m>> \o rest : rest \in ShortSeqs(n - 1, m.end)} :
                m \in {x \in ShortSpans : from <= x.start /\ x.start < x.end}}
ShortResults == UNION {ShortSeqs(n, 0) : n \in 0..ShortMatches}
ShortResultsNoKeyword == {ms \in ShortResults : \A i \in DOMAIN ms : ~ms[i].keyword}
FinditerShort(r) ==
    IF \/ HasUrgencyContext(THREAT_PATTERNS[r].context)
       \/ HasAuthorityContext(THREAT_PATTERNS[r].context)
      THEN ShortResults ELSE ShortResultsNoKeyword

\* threats = [], matched_positions = set(), first rule compiled and scanned
ApBeginShort ==
    /\ ap_pc = "idle"
    /\ \E text \in TextAttrs, ms \in FinditerShort(1) :
          /\ ap_text' = text
          /\ ap_pending' = ms
    /\ ap_pc' = "scanning"
    /\ ap_rule' = 1
    /\ threats' = <<>>
    /\ matched_positions' = {}
    /\ UNCHANGED <<pipeline_vars, retry_vars, ext_vars, now>>

\* the next rule of the bank is compiled and scanned
ApNextRuleShort ==
    /\ ap_pc = "scanning"
    /\ ap_pending = <<>>
    /\ ap_rule < NumRules
    /\ ap_rule' = ap_rule + 1
    /\ \E ms \in FinditerShort(ap_rule + 1) : ap_pending' = ms
    /\ UNCHANGED <<ap_pc, ap_text, threats, matched_positions, pipeline_vars, retry_vars,
                   ext_vars, now>>

(***************************************************************************)
(* AlertingSystem (alerting_system.py:27-82)                               *)
(***************************************************************************)
MaxAlSteps == 5
\* cooldown_seconds of the singleton AlertingSystem()
COOLDOWN_SECONDS == 300
AlertNames == {"high_error_rate", "high_latency"}
\* The seconds between two operations
AlSteps == {100, 300}

\* Alert(name, reason): last_triggered = time.time(), triggered_count = 1
NewAlert(t) == [last_triggered |-> t, triggered_count |-> 1, is_resolved |-> FALSE]

\* trigger_alert with the test of is_resolved left out
trigger_alert_IgnoreResolved(alerts, name, t) ==
    IF name \in DOMAIN alerts
      THEN IF (t - alerts[name].last_triggered) < COOLDOWN_SECONDS
             THEN [alerts |-> alerts, notified |-> FALSE]
             ELSE [alerts |-> [alerts EXCEPT ![name] =
                                  [last_triggered |-> t,
                                   triggered_count |-> @.triggered_count + 1,
                                   is_resolved |-> FALSE]],
                   notified |-> TRUE]
      ELSE [alerts |-> (name :> NewAlert(t)) @@ alerts, notified |-> TRUE]

\* trigger_alert(name, reason) at time t: the alerts afterwards, and whether
\* log_alert and create_task(send_notifications(...)) were reached
trigger_alert(alerts, name, t) ==
    IF name \in DOMAIN alerts
      THEN IF ~alerts[name].is_resolved
              /\ (t - alerts[name].last_triggered) < COOLDOWN_SECONDS
             THEN [alerts |-> alerts, notified |-> FALSE]
             ELSE [alerts |-> [alerts EXCEPT ![name] =
                                  [last_triggered |-> t,
                                   triggered_count |-> @.triggered_count + 1,
                                   is_resolved |-> FALSE]],
                   notified |-> TRUE]
      ELSE [alerts |-> (name :> NewAlert(t)) @@ alerts, notified |-> TRUE]

\* resolve_alert(name)
resolve_alert(alerts, name) ==
    IF name \in DOMAIN alerts
      THEN [alerts EXCEPT ![name].is_resolved = TRUE]
      ELSE alerts

NoAlerts == [n \in {} |-> NewAlert(0)]
AlNoOp == [op |-> "none", name |-> "none", at |-> 0, before |-> NoAlerts, notified |-> FALSE]
\* AlertingSystem(): _active_alerts = {}; no notification task created yet
AlIdle == [steps |-> 0, clock |-> 0, active_alerts |-> NoAlerts,
           tasks |-> [n \in AlertNames |-> 0], last |-> AlNoOp]

\* trigger_alert(name, reason)
AlTrigger ==
    /\ al.steps < MaxAlSteps
    /\ \E name \in AlertNames :
          LET r == trigger_alert(al.active_alerts, name, al.clock)
          IN  al' = [al EXCEPT !.steps = @ + 1,
                               !.active_alerts = r.alerts,
                               !.tasks[name] = IF r.notified THEN @ + 1 ELSE @,
                               !.last = [op |-> "trigger", name |-> name, at |-> al.clock,
                                         before |-> al.active_alerts,
                                         notified |-> r.notified]]
    /\ UNCHANGED <<core_vars, ext_but_al>>

\* resolve_alert(name)
AlResolve ==
    /\ al.steps < MaxAlSteps
    /\ \E name \in AlertNames :
          al' = [al EXCEPT !.steps = @ + 1,
                           !.active_alerts = resolve_alert(al.active_alerts, name),
                           !.last = [op |-> "resolve", name |-> name, at |-> al.clock,
                                     before |-> al.active_alerts, notified |-> FALSE]]
    /\ UNCHANGED <<core_vars, ext_but_al>>

\* time.time() advances between two operations
AlTick ==
    /\ al.steps < MaxAlSteps
    /\ \E dt \in AlSteps :
          al' = [al EXCEPT !.steps = @ + 1, !.clock = @ + dt]
    /\ UNCHANGED <<core_vars, ext_but_al>>

(***************************************************************************)
(* AsyncLoggingClient (logging_client.py:33-146): the queue of log entries *)
(* and the background worker, Supabase configured and every insert         *)
(* succeeding                                                              *)
(***************************************************************************)
MaxLogEvents == 101
\* batch_size of the singleton AsyncLoggingClient()
BATCH_SIZE == 50

\* The first n entries of the queue q (all of it when it is shorter)
TakeBatch(q, n) == SubSeq(q, 1, Min(Len(q), n))
\* The queue after its first n entries were taken by get_nowait
DropBatch(q, n) == SubSeq(q, Min(Len(q), n) + 1, Len(q))
SeqRange(q) == {q[i] : i \in DOMAIN q}

\* AsyncLoggingClient() after start_worker(): the worker waits in wait_for
LgIdle == [pc |-> "off", queue |-> <<>>, accepted |-> 0,
           inserted |-> {}, batch |-> <<>>, shutdown_event |-> FALSE]
LgStarted == [LgIdle EXCEPT !.pc = "wait"]

\* log_event(entry), called by a request handler (the application serves
\* requests until its lifespan ends, and shutdown() is called after that):
\* put_nowait on the queue (never full at these sizes)
LgLogEvent ==
    /\ lg.pc # "off"
    /\ ~lg.shutdown_event
    /\ lg.accepted < MaxLogEvents
    /\ lg' = [lg EXCEPT !.accepted = @ + 1,
                        !.queue = Append(@, lg.accepted + 1)]
    /\ UNCHANGED <<core_vars, ext_but_lg>>

\* shutdown(): the event is set, the worker is not awaited
LgShutdown ==
    /\ lg.pc # "off"
    /\ ~lg.shutdown_event
    /\ lg' = [lg EXCEPT !.shutdown_event = TRUE]
    /\ UNCHANGED <<core_vars, ext_but_lg>>

\* _run_worker: wait_for returns (event set or flush_interval elapsed); when
\* the queue is not empty _flush_queue takes one batch and awaits its insert,
\* otherwise the loop condition is tested again
LgWake ==
    /\ lg.pc = "wait"
    /\ IF lg.queue # <<>>
         THEN lg' = [lg EXCEPT !.pc = "insert",
                               !.batch = TakeBatch(lg.queue, BATCH_SIZE),
                               !.queue = DropBatch(lg.queue, BATCH_SIZE)]
         ELSE /\ lg.shutdown_event
              /\ lg' = [lg EXCEPT !.pc = "final"]
    /\ UNCHANGED <<core_vars, ext_but_lg>>

\* the insert of the periodic flush returns; `while not is_set()` is tested
LgInserted ==
    /\ lg.pc = "insert"
    /\ lg' = [lg EXCEPT !.inserted = @ \cup SeqRange(lg.batch),
                        !.batch = <<>>,
                        !.pc = IF lg.shutdown_event THEN "final" ELSE "wait"]
    /\ UNCHANGED <<core_vars, ext_but_lg>>

\* the final _flush_queue() after the loop: one batch is taken
LgFinalFlush ==
    /\ lg.pc = "final"
    /\ lg' = [lg EXCEPT !.pc = IF lg.queue = <<>> THEN "stopped" ELSE "final_insert",
                        !.batch = TakeBatch(lg.queue, BATCH_SIZE),
                        !.queue = DropBatch(lg.queue, BATCH_SIZE)]
    /\ UNCHANGED <<core_vars, ext_but_lg>>

\* the insert of the final flush returns and _run_worker ends
LgFinalInserted ==
    /\ lg.pc = "final_insert"
    /\ lg' = [lg EXCEPT !.inserted = @ \cup SeqRange(lg.batch),
                        !.batch = <<>>,
                        !.pc = "stopped"]
    /\ UNCHANGED <<core_vars, ext_but_lg>>

(***************************************************************************)
(* correlation_and_logging_middleware (main.py:103-143) with DevStats      *)
(* (stats.py) and MetricsCollector (metrics_collector.py)                  *)
(***************************************************************************)
MaxMwRequests == 4
\* What call_next(request) does: the handler raises, or a response with a
\* status code comes back; a 200 of /v1/analyze carries
\* request.state.analysis_result with its risk score and number of threats
ResponseStatuses == {200, 404, 429, 503}
HandlerOutcomes ==
    {[kind |-> "raises", status |-> 0, analyzed |-> FALSE, risk_score |-> 0, threats |-> 0]}
    \cup [kind : {"response"}, status : ResponseStatuses \ {200}, analyzed : {FALSE},
          risk_score : {0}, threats : {0}]
    \cup [kind : {"response"}, status : {200}, analyzed : {FALSE},
          risk_score : {0}, threats : {0}]
    \cup [kind : {"response"}, status : {200}, analyzed : {TRUE},
          risk_score : {0, 50}, threats : {0, 1}]

\* MetricsCollector.record_request(status_code, latency_ms)
record_request(mc, status_code) ==
    [total_requests |-> mc.total_requests + 1,
     error_count |-> IF status_code >= 400 THEN mc.error_count + 1 ELSE mc.error_count]

\* DevStats.add(...): the counters of DevStats and of the MetricsCollector
DevStatsAdd(s, risk_score, n_threats) ==
    [stats |-> [total_requests |-> s.stats.total_requests + 1,
                total_with_risk |-> IF risk_score > 0 \/ n_threats > 0
                                      THEN s.stats.total_with_risk + 1
                                      ELSE s.stats.total_with_risk],
     metrics |-> record_request(s.metrics, 200)]

\* DevStats.record_error(status_code, latency_ms)
record_error(s, status_code) ==
    [stats |-> [s.stats EXCEPT !.total_requests = @ + 1],
     metrics |-> record_request(s.metrics, status_code)]

\* The middleware after call_next: the except branch of lines 115-118, then
\* the accounting of lines 123-138 on the response
Middleware(s, o) ==
    LET caught == IF o.kind = "raises" THEN record_error(s, 500) ELSE s
        status == IF o.kind = "raises" THEN 500 ELSE o.status
    IN  IF 200 <= status /\ status < 300
          THEN IF o.analyzed
                 THEN DevStatsAdd(caught, o.risk_score, o.threats)
                 ELSE DevStatsAdd(caught, 0, 0)
          ELSE record_error(caught, status)

NoCounts == [stats |-> [total_requests |-> 0, total_with_risk |-> 0],
             metrics |-> [total_requests |-> 0, error_count |-> 0]]
NoOutcome == [kind |-> "none", status |-> 0, analyzed |-> FALSE, risk_score |-> 0, threats |-> 0]
\* stats = DevStats(), metrics_collector = MetricsCollector(); no request yet
MwIdle == [requests |-> 0, counts |-> NoCounts, before |-> NoCounts, last |-> NoOutcome]

\* One request passes through the middleware
MwRequest ==
    /\ mw.requests < MaxMwRequests
    /\ \E o \in HandlerOutcomes :
          mw' = [requests |-> mw.requests + 1,
                 counts |-> Middleware(mw.counts, o),
                 before |-> mw.counts,
                 last |-> o]
    /\ UNCHANGED <<core_vars, ext_but_mw>>

(***************************************************************************)
(* gemini_enrich with a cache key: what is cached and what a hit returns   *)
(* (gemini.py:730-744, 796-823)                                            *)
(***************************************************************************)
MaxChSteps == 4
\* The ThreatAnalysisResult analyze_content returns: threat_level in
\* thousandths and threat_type.  `merged` and `adjusted` are what lines
\* 809-820 would leave in the object
ModelResponses ==
    [threat_level : {0, 700}, threat_type : {<<>>, <<"phishing">>},
     merged : {<<>>}, adjusted : {-1}]
\* The threats and base_score arguments of a call (-1: base_score is None)
ThreatArgs == {<<>>, <<"malware">>}
BaseArgs == {-1, 80}
ChSteps == {100, CACHE_TTL}

\* Iterating a pydantic model yields (field name, value) tuples
ModelIter(result) ==
    {[kind |-> "tuple", name |-> f] : f \in {"threat_level", "threat_type", "justification", "recommendation"}}
\* `key in result`: result has no __contains__, so the items of its
\* iteration are compared with the string
PyContains(result, key) ==
    \E item \in ModelIter(result) : item.kind = "str" /\ item.name = key

\* Lines 804-821 with both tests taken as true
EnrichTail_Merged(result, threat_args, base_score) ==
    [result EXCEPT !.merged = @ \o threat_args,
                   !.adjusted = IF base_score # -1 THEN base_score ELSE @]

\* Lines 804-821 on the result object: the merge of the threats and the
\* adjustment of the score, each behind its test
EnrichTail(result, threat_args, base_score) ==
    LET merged == IF threat_args # <<>> /\ PyContains(result, "threats")
                    THEN [result EXCEPT !.merged = @ \o threat_args]
                    ELSE result
    IN  IF base_score # -1 /\ PyContains(merged, "confidenceScore")
          THEN [merged EXCEPT !.adjusted = base_score]
          ELSE merged

NoResponse == [threat_level |-> -1, threat_type |-> <<>>, merged |-> <<>>, adjusted |-> -1]
ChIdle == [steps |-> 0, kind |-> "none", returned |-> NoResponse, received |-> NoResponse,
           threat_args |-> <<>>, base_score |-> -1, filled_with |-> <<>>, filled_base |-> -1]

\* gemini_enrich(text, cache_key=key, threats=..., base_score=...) with the
\* model answering a valid response: a hit returns the cached object; a miss
\* stores the result object in the cache and then runs lines 804-821 on that
\* same object, which is the one returned
ChEnrich ==
    /\ ch.steps < MaxChSteps
    /\ \E t \in ValidTexts, key \in CacheKeys, threat_args \in ThreatArgs,
          base_score \in BaseArgs, resp \in ModelResponses, clean \in BOOLEAN :
          LET pre == gemini_enrich_prefix(t, "comprehensive", key, response_cache, now, clean)
              result == EnrichTail(resp, threat_args, base_score)
          IN  IF pre.kind = "hit"
                THEN /\ response_cache' = pre.cache
                     /\ ch' = [ch EXCEPT !.steps = @ + 1, !.kind = "hit",
                                         !.returned = response_cache[key].response,
                                         !.threat_args = threat_args,
                                         !.base_score = base_score]
                ELSE /\ response_cache' =
                            CacheStore(pre.cache, key,
                                       [present |-> TRUE, timestamp |-> now, response |-> result])
                     /\ ch' = [ch EXCEPT !.steps = @ + 1, !.kind = "miss",
                                         !.returned = result, !.received = resp,
                                         !.threat_args = threat_args,
                                         !.base_score = base_score,
                                         !.filled_with = threat_args,
                                         !.filled_base = base_score]
    /\ UNCHANGED <<gemini_module, gemini_api_key, gemini_enrichment_enabled, model_calls,
                   enrich_log, req, call, requests_made, now, pattern_vars, retry_vars,
                   ext_but_ch>>

\* Time passes between two calls
ChTick ==
    /\ ch.steps < MaxChSteps
    /\ \E dt \in ChSteps : now' = now + dt
    /\ ch' = [ch EXCEPT !.steps = @ + 1]
    /\ UNCHANGED <<pipeline_vars, pattern_vars, retry_vars, ext_but_ch>>

(***************************************************************************)
(* MemoryRateLimiter.is_allowed called on its own (rate_limiter.py:103-139)*)
(***************************************************************************)
MaxMlSteps == 5
MlLimits == {1, 2}
\* The time between two calls, in centiseconds: 10 s, the window, and more
\* than the max_age of _cleanup_expired
MlSteps == {1000, 6000, 370000}

NoStore == [present |-> FALSE, stamps |-> <<>>, last_cleanup |-> 0]
\* MemoryRateLimiter() at time 0, memory_store empty, no call yet
MlIdle == [steps |-> 0, limit |-> 0, store |-> NoStore, called |-> FALSE, at |-> 0,
           before |-> NoStore, allowed |-> FALSE, exc |-> "none"]
MlInit == \E n \in MlLimits : ml = [MlIdle EXCEPT !.limit = n]

\* is_allowed(key, limit, window)
MlCall ==
    /\ ml.steps < MaxMlSteps
    /\ LET t == Seconds(now)
           res == MemoryIsAllowed(ml.store, ml.limit, RATE_LIMIT_WINDOW_SECONDS, t)
       IN  ml' = [ml EXCEPT !.steps = @ + 1, !.store = res.store, !.called = TRUE,
                            !.at = t, !.before = ml.store,
                            !.allowed = res.allowed, !.exc = res.exc]
    /\ UNCHANGED <<core_vars, ext_but_ml>>

\* Time passes between two calls
MlTick ==
    /\ ml.steps < MaxMlSteps
    /\ \E dt \in MlSteps : now' = now + dt
    /\ ml' = [ml EXCEPT !.steps = @ + 1]
    /\ UNCHANGED <<pattern_vars, pipeline_vars, retry_vars, ext_but_ml>>

ExtAtRest ==
    /\ sc = ScIdle /\ inflight = NoInflight /\ cs = CsIdle /\ rate_limiter = RlIdle
    /\ pii = PiiIdle /\ ti = TiIdle /\ dl = DlIdle /\ det = DetIdle /\ gl = GlIdle /\ al = AlIdle /\ lg = LgIdle /\ mw = MwIdle /\ ch = ChIdle /\ ml = MlIdle

(***************************************************************************)
(* Specifications                                                          *)
(***************************************************************************)
\* The groups of variables a specification does not exercise stay at rest.
PipelineAtRest ==
    /\ gemini_module = "unloaded"
    /\ gemini_api_key = TRUE
    /\ gemini_enrichment_enabled = TRUE
    /\ response_cache = [k \in CacheKeys |-> Absent]
    /\ model_calls = <<>>
    /\ enrich_log = <<>>
    /\ req = NoReq
    /\ call = NoCall
    /\ requests_made = 0

RetryAtRest ==
    /\ retry_budget = Unbound
    /\ request_timestamps = EmptyBag
    /\ rb = RbIdle

\* analyze_text and gemini_enrich
Init == PatternInit /\ PipelineInit /\ RetryAtRest /\ ExtAtRest /\ now = 0
Next == ImportGemini \/ SetApiKey \/ Tick \/ AnalyzeText \/ EnrichDirect \/ ModelResponds
Spec == Init /\ [][Next]_vars

\* calls of gemini_enrich, the module being imported with a key configured
EnrichInit == PatternInit /\ PipelineLoaded /\ RetryAtRest /\ ExtAtRest /\ now = 0
EnrichNext == Tick \/ AnalyzeText \/ EnrichDirect \/ ModelResponds
SpecEnrich == EnrichInit /\ [][EnrichNext]_vars

\* analyze_patterns
PatternsInit == PatternInit /\ PipelineAtRest /\ RetryAtRest /\ ExtAtRest /\ now = 0
PatternsNext == ApBegin \/ ApMatch \/ ApNextRule \/ ApReturn
SpecPatterns == PatternsInit /\ [][PatternsNext]_vars

\* retry_with_backoff
RetrySpecInit ==
    PatternInit /\ PipelineAtRest /\ (RetryInitFresh \/ RetryInitBusy) /\ ExtAtRest /\ now = 0
RetrySpecNext == RbCall \/ RbAttempt \/ RbSleep
SpecRetry == RetrySpecInit /\ [][RetrySpecNext]_vars

\* the risk aggregation
ScoreInit == PatternInit /\ PipelineAtRest /\ RetryAtRest /\ ExtAtRest /\ now = 0
ScoreNext == ScoreThreats \/ ScoreGraph
SpecScore == ScoreInit /\ [][ScoreNext]_vars

\* concurrent gemini_enrich calls on response_cache
CacheSpecInit == PatternInit /\ PipelineLoaded /\ RetryAtRest /\ ExtAtRest /\ now = 0
CacheSpecNext == CcStartSome \/ CcRespondSome \/ Tick
SpecCache == CacheSpecInit /\ [][CacheSpecNext]_vars

\* the size of response_cache
CacheSizeInit ==
    /\ PatternInit /\ PipelineLoaded /\ RetryAtRest /\ now = 0
    /\ sc = ScIdle /\ inflight = NoInflight /\ CsInit /\ rate_limiter = RlIdle /\ pii = PiiIdle
    /\ ti = TiIdle /\ dl = DlIdle /\ det = DetIdle /\ gl = GlIdle /\ al = AlIdle /\ lg = LgIdle /\ mw = MwIdle /\ ch = ChIdle /\ ml = MlIdle
CacheSizeNext == CsStart \/ CsRespond \/ Tick
SpecCacheSize == CacheSizeInit /\ [][CacheSizeNext]_vars

\* analyze_patterns over a rule bank holding a rule that fails
FaultyPatternsNext == PatternsNext \/ ApRuleFails
SpecPatternsFaulty == PatternsInit /\ [][FaultyPatternsNext]_vars

\* rate limiting of /v1/analyze
RateLimitInit ==
    /\ PatternInit /\ PipelineAtRest /\ RetryAtRest /\ now = 0
    /\ sc = ScIdle /\ inflight = NoInflight /\ cs = CsIdle /\ RlInit /\ pii = PiiIdle
    /\ ti = TiIdle /\ dl = DlIdle /\ det = DetIdle /\ gl = GlIdle /\ al = AlIdle /\ lg = LgIdle /\ mw = MwIdle /\ ch = ChIdle /\ ml = MlIdle
RateLimitNext == RlRequest \/ RlTick
SpecRateLimit == RateLimitInit /\ [][RateLimitNext]_vars

\* analyze_text on personal data
PiiSpecInit ==
    /\ PatternInit /\ PipelineAtRest /\ RetryAtRest /\ now = 0
    /\ sc = ScIdle /\ inflight = NoInflight /\ cs = CsIdle /\ rate_limiter = RlIdle /\ PiiInit
    /\ ti = TiIdle /\ dl = DlIdle /\ det = DetIdle /\ gl = GlIdle /\ al = AlIdle /\ lg = LgIdle /\ mw = MwIdle /\ ch = ChIdle /\ ml = MlIdle
PiiNext == PiiTransform \/ PiiAnalyze
SpecPii == PiiSpecInit /\ [][PiiNext]_vars

\* construction of ThreatIntelligence
TiSpecInit ==
    /\ PatternInit /\ PipelineAtRest /\ RetryAtRest /\ now = 0
    /\ sc = ScIdle /\ inflight = NoInflight /\ cs = CsIdle /\ rate_limiter = RlIdle
    /\ pii = PiiIdle /\ TiInit /\ dl = DlIdle /\ det = DetIdle /\ gl = GlIdle /\ al = AlIdle /\ lg = LgIdle /\ mw = MwIdle /\ ch = ChIdle /\ ml = MlIdle
TiNext == TiConstruct
SpecThreatIntel == TiSpecInit /\ [][TiNext]_vars

\* detect_language
LangInit ==
    /\ PatternInit /\ PipelineAtRest /\ RetryAtRest /\ now = 0
    /\ sc = ScIdle /\ inflight = NoInflight /\ cs = CsIdle /\ rate_limiter = RlIdle
    /\ pii = PiiIdle /\ ti = TiIdle /\ dl = DlIdle /\ det = DetIdle /\ gl = GlIdle /\ al = AlIdle /\ lg = LgIdle /\ mw = MwIdle /\ ch = ChIdle /\ ml = MlIdle
LangNext == DetectLanguage
SpecLang == LangInit /\ [][LangNext]_vars

\* the stages run again on the same text
DetSpecInit ==
    /\ PatternInit /\ PipelineAtRest /\ RetryAtRest /\ now = 0
    /\ sc = ScIdle /\ inflight = NoInflight /\ cs = CsIdle /\ rate_limiter = RlIdle /\ pii = PiiIdle /\ ti = TiIdle /\ dl = DlIdle /\ DetInit
    /\ gl = GlIdle /\ al = AlIdle /\ lg = LgIdle /\ mw = MwIdle /\ ch = ChIdle /\ ml = MlIdle
DetNext == DetRun
SpecDeterminism == DetSpecInit /\ [][DetNext]_vars

\* check_rate_limit called on its own
GlInit ==
    /\ PatternInit /\ PipelineAtRest /\ now = 0
    /\ retry_budget = Unbound /\ rb = RbIdle /\ request_timestamps \in BusyStamps
    /\ sc = ScIdle /\ inflight = NoInflight /\ cs = CsIdle /\ rate_limiter = RlIdle /\ pii = PiiIdle /\ ti = TiIdle /\ dl = DlIdle /\ det = DetIdle /\ gl = GlIdle /\ al = AlIdle /\ lg = LgIdle /\ mw = MwIdle /\ ch = ChIdle /\ ml = MlIdle
GlNext == GlCall \/ GlTick
SpecGeminiLimit == GlInit /\ [][GlNext]_vars

\* analyze_patterns on short texts
ShortPatternsNext == ApBeginShort \/ ApMatch \/ ApNextRuleShort \/ ApReturn
SpecPatternsShort == PatternsInit /\ [][ShortPatternsNext]_vars

\* The alerting system on its own
AlInit ==
    /\ PatternInit /\ PipelineAtRest /\ RetryAtRest /\ now = 0
    /\ sc = ScIdle /\ inflight = NoInflight /\ cs = CsIdle /\ rate_limiter = RlIdle /\ pii = PiiIdle /\ ti = TiIdle /\ dl = DlIdle /\ det = DetIdle /\ gl = GlIdle /\ al = AlIdle /\ lg = LgIdle /\ mw = MwIdle /\ ch = ChIdle /\ ml = MlIdle
AlNext == AlTrigger \/ AlResolve \/ AlTick
SpecAlerting == AlInit /\ [][AlNext]_vars

\* The logging client and its worker
LgInit ==
    /\ PatternInit /\ PipelineAtRest /\ RetryAtRest /\ now = 0
    /\ sc = ScIdle /\ inflight = NoInflight /\ cs = CsIdle /\ rate_limiter = RlIdle /\ pii = PiiIdle /\ ti = TiIdle /\ dl = DlIdle /\ det = DetIdle /\ gl = GlIdle /\ al = AlIdle
    /\ lg = LgStarted
    /\ mw = MwIdle /\ ch = ChIdle /\ ml = MlIdle
LgNext ==
    LgLogEvent \/ LgShutdown \/ LgWake \/ LgInserted \/ LgFinalFlush \/ LgFinalInserted
SpecLogging == LgInit /\ [][LgNext]_vars

\* The middleware with its counters
MwInit ==
    /\ PatternInit /\ PipelineAtRest /\ RetryAtRest /\ now = 0
    /\ sc = ScIdle /\ inflight = NoInflight /\ cs = CsIdle /\ rate_limiter = RlIdle /\ pii = PiiIdle /\ ti = TiIdle /\ dl = DlIdle /\ det = DetIdle /\ gl = GlIdle /\ al = AlIdle /\ lg = LgIdle /\ mw = MwIdle /\ ch = ChIdle /\ ml = MlIdle
MwNext == MwRequest
SpecMiddleware == MwInit /\ [][MwNext]_vars

\* gemini_enrich called with a cache key, one call at a time
ChInit ==
    /\ PatternInit /\ PipelineLoaded /\ RetryAtRest /\ now = 0
    /\ sc = ScIdle /\ inflight = NoInflight /\ cs = CsIdle /\ rate_limiter = RlIdle /\ pii = PiiIdle /\ ti = TiIdle /\ dl = DlIdle /\ det = DetIdle /\ gl = GlIdle /\ al = AlIdle /\ lg = LgIdle /\ mw = MwIdle /\ ch = ChIdle /\ ml = MlIdle
ChNext == ChEnrich \/ ChTick
SpecCacheHit == ChInit /\ [][ChNext]_vars

\* MemoryRateLimiter.is_allowed called on its own
MlSpecInit ==
    /\ PatternInit /\ PipelineAtRest /\ RetryAtRest /\ now = 0
    /\ sc = ScIdle /\ inflight = NoInflight /\ cs = CsIdle /\ rate_limiter = RlIdle /\ pii = PiiIdle /\ ti = TiIdle /\ dl = DlIdle /\ det = DetIdle /\ gl = GlIdle /\ al = AlIdle /\ lg = LgIdle /\ mw = MwIdle /\ ch = ChIdle
    /\ MlInit
MlNext == MlCall \/ MlTick
SpecMemoryLimiter == MlSpecInit /\ [][MlNext]_vars

\* retry_with_backoff under the scheduling of the event loop: a started
\* attempt and a started sleep complete
SpecRetryFair == SpecRetry /\ WF_vars(RbAttempt) /\ WF_vars(RbSleep)

(***************************************************************************)
(* Properties                                                              *)
(***************************************************************************)
ReqFinished == req.pc \notin {"idle", "enrich1"}

\* C1: every analyze_text request ends by returning an AnalyzeResult whose
\* risk_score is an integer between 0 and 100.
C1_RiskScoreInRange ==
    ReqFinished => (req.pc = "returned" /\ req.risk_score \in 0..100)

\* C2: when the enrichment call of a request fails, analyze_text still
\* returns a result carrying the base score; no exception of the enrichment
\* client reaches its caller.
C2_EnrichmentFailureContained ==
    req.enrich_failed => (req.exc = "none" /\ (ReqFinished => req.pc = "returned"))

\* C3: the spans accepted within one analyze_patterns call are pairwise
\* disjoint as half-open intervals.
C3_AcceptedSpansDisjoint ==
    \A p \in matched_positions, q \in matched_positions :
        p # q => (p[2] <= q[1] \/ q[2] <= p[1])

\* C4: two enrichment calls for the same text less than CACHE_TTL apart
\* invoke the model endpoint at most once.
C4_OneModelCallPerTextWithinTTL ==
    \A i \in 1..Len(model_calls), j \in 1..Len(model_calls) :
        (i < j /\ model_calls[i].text = model_calls[j].text)
            => model_calls[j].time - model_calls[i].time >= CACHE_TTL

\* C5: every call analyze_text makes to the enrichment client comes after
\* the base score of the request is computed and is given that base score
\* and the threats.
C5_EnrichmentAfterBaseScore ==
    \A i \in 1..Len(enrich_log) :
        enrich_log[i].caller = "analyze_text"
            => (enrich_log[i].base_ready /\ enrich_log[i].has_base /\ enrich_log[i].has_threats)

\* C6: retry_with_backoff, called with max_retries >= 1 as its callers do,
\* executes the wrapped call at most max_retries times, never starts an attempt past its range, ends by returning the
\* call's result or by raising, and every started call does end.
C6_BoundedAttempts ==
    /\ [](/\ rb.attempts_made <= rb.max_retries
          /\ rb.limit <= rb.max_retries
          /\ (rb.pc = "attempt" => rb.attempt < rb.limit)
          /\ (rb.pc = "returned" => rb.value = "result"))
    /\ (rb.pc \in {"attempt", "sleeping"} ~> rb.pc \in {"returned", "raised"})

C6_Witness ==
    /\ rb.pc = "raised"
    /\ rb.exc = "GeminiException"
    /\ rb.max_retries = 3
    /\ rb.attempts_made = 3

C9_OversizeTextReturnsBaseScore ==
    (ReqFinished /\ req.len > MAX_TEXT_LENGTH)
        => (req.pc = "returned" /\ req.base_score >= 0 /\ req.risk_score = req.base_score)

\* C10: an enrichment call made while no API key is configured returns at
\* once, without a request to the model.
C10_NoKeyNoModelCall ==
    (call.caller # "none" /\ ~call.key_configured)
        => (call.pc = "returned" /\ ~call.called_model)

\* C11: when pattern matching and threat intelligence find no threat, the
\* base score analyze_text computes is 0.
C11_NoThreatsZeroBase ==
    (sc.pc = "scored" /\ sc.found = <<>>) => sc.base_score = 0

\* C12: with several gemini_enrich calls in flight on response_cache, no
\* call raises on a key another call removed, and every entry present, and
\* every entry a call was served, is a (response, timestamp) pair written by
\* one call.
C12_CacheEntriesWhole ==
    /\ \A i \in Calls : inflight[i].exc # "KeyError"
    /\ \A k \in CacheKeys :
          response_cache[k].present => response_cache[k].response_of = response_cache[k].stamp_of
    /\ \A i \in Calls :
          inflight[i].result.present => inflight[i].result.response_of = inflight[i].result.stamp_of

C12_Witness ==
    \E i \in Calls, j \in Calls, k \in CacheKeys :
        /\ i # j
        /\ inflight[i].pc = "awaiting" /\ inflight[i].cache_key = k
        /\ inflight[j].pc = "awaiting" /\ inflight[j].cache_key = k
        /\ response_cache[k].present
        /\ response_cache[k].response_of \notin {i, j}

\* C13: response_cache never holds more than MAX_CACHE_SIZE entries.
C13_CacheSizeBounded ==
    BagSize(cs.stamps) <= MAX_CACHE_SIZE

\* C14: the failure of one rule does not end analyze_patterns: the rules
\* after it are still evaluated and the threats are returned.
C14_RuleFailureContained ==
    ap_pc # "raised"

\* C15: every Threat analyze_text builds (pattern threats, boosted
\* social_engineering threats, threat-intel threats, coordinated_behavior)
\* has a confidence_score between 0 and 1.
C15_ConfidenceInUnitInterval ==
    \A i \in 1..Len(sc.threats) :
        sc.threats[i].confidence_score >= 0 /\ sc.threats[i].confidence_score <= 1000

C15_Witness ==
    /\ sc.pc = "scored"
    /\ sc.graph.graph_score = 1000
    /\ \E i \in 1..Len(sc.threats) : sc.threats[i].category = "coordinated_behavior"
    /\ \E i \in 1..Len(sc.threats) :
          sc.threats[i].category = "social_engineering" /\ sc.threats[i].confidence_score = 950
    /\ \E i \in 1..Len(sc.threats) : sc.threats[i].category = "credential_patterns"

\* C16: of the requests one API key sends within one window, the first N
\* (the per-key limit) are allowed and every further one is answered 429
\* with the X-RateLimit headers, the handler not being run.
C16_FirstNAllowedRestRejected ==
    /\ \A i \in 1..Len(rate_limiter.served) :
          (rate_limiter.served[i].at - rate_limiter.served[1].at < RATE_LIMIT_WINDOW_SECONDS)
              => /\ rate_limiter.served[i].status = IF i <= rate_limiter.limit THEN 200 ELSE 429
                 /\ rate_limiter.served[i].status = 429 => rate_limiter.served[i].headers
    /\ rate_limiter.handler_runs = Cardinality({i \in 1..Len(rate_limiter.served) : rate_limiter.served[i].status = 200})

\* The arguments of the gemini_enrich call in `call` fail the validation of
\* lines 700-727
InvalidEnrichArgs(c) ==
    \/ c.text_blank
    \/ c.text_len = 0
    \/ c.text_len > MAX_TEXT_LENGTH
    \/ c.analysis_type \notin {"quick", "comprehensive"}

\* C17: a gemini_enrich call with blank text, with text longer than 30,000
\* characters or with an analysis_type other than quick and comprehensive
\* raises ValueError in the step that starts it, with no cache hit returned,
\* no model call made and response_cache unchanged.
C17_InvalidInputRaisesValueError ==
    [][(enrich_log' # enrich_log /\ InvalidEnrichArgs(call'))
          => /\ call'.pc = "raised"
             /\ call'.exc = "ValueError"
             /\ ~call'.called_model
             /\ model_calls' = model_calls
             /\ response_cache' = response_cache]_vars

\* An invalid call raised ValueError although response_cache holds a live
\* entry under its cache key
C17_Witness ==
    /\ call.pc = "raised"
    /\ call.exc = "ValueError"
    /\ InvalidEnrichArgs(call)
    /\ call.cache_key # NoKey
    /\ response_cache[call.cache_key].present
    /\ now - response_cache[call.cache_key].timestamp < CACHE_TTL

\* C18: under the default configuration (standard privacy mode, redaction
\* enabled) the threats analyze_text finds in a text holding a US social
\* security number include a pii_exfiltration threat.
C18_SsnYieldsPiiThreat ==
    (/\ pii.pc = "analyzed"
     /\ pii.privacy_mode = "standard"
     /\ pii.pii_redaction_enabled
     /\ \E i \in DOMAIN pii.given : pii.given[i] = "ssn")
        => \E k \in DOMAIN pii.threats : pii.threats[k].category = "pii_exfiltration"

\* C19: constructing ThreatIntelligence never raises and leaves external_intel
\* holding a suspicious_domains list, whatever the cache file and the feeds
\* do, and a cache file that cannot be read is a cache miss: the feeds are
\* fetched again.
C19_ConstructionTotalAndRefetches ==
    /\ ti.pc # "raised"
    /\ ti.pc = "constructed"
          => /\ ti.external_intel.loaded
             /\ (ti.env.mkdir_ok /\ ti.env.cache_file \in UnreadableCacheFiles)
                    => ti.fetches >= 1

\* C20: detect_language never raises and returns one of en, es, fr, de, pt;
\* it returns en when the cleaned text has fewer than 3 tokens, when the
\* detector raises and when the detected language is not a supported one.
C20_DetectLanguageTotal ==
    /\ dl.pc # "raised"
    /\ dl.pc = "returned"
          => /\ dl.value \in SupportedLanguages
             /\ (\/ ~dl.text.is_str
                 \/ TokenCount(ReplacePunctuation(dl.text.chars)) < 3
                 \/ dl.detected \notin SupportedLanguages)
                    => dl.value = "en"

\* The detector was asked about a text of three tokens and answered with a
\* language outside the supported set
C20_Witness ==
    /\ dl.pc = "returned"
    /\ dl.text.is_str
    /\ TokenCount(ReplacePunctuation(dl.text.chars)) >= 3
    /\ dl.detected = "it"
    /\ dl.value = "en"

C22_RedisSlidingWindow ==
    rate_limiter.backend = "redis"
        => \A i \in DOMAIN rate_limiter.served :
              Cardinality({j \in 1..i :
                              /\ rate_limiter.served[j].status = 200
                              /\ rate_limiter.served[i].at - rate_limiter.served[j].at
                                     < RATE_LIMIT_WINDOW_SECONDS})
                  <= rate_limiter.limit

\* The number of stamps of the bag b that lie inside the window ending at t
InWindow(b, t) ==
    BagSize([x \in {y \in DOMAIN b : y > t - REQUEST_WINDOW} |-> b[x]])

\* C23: check_rate_limit never leaves more than MAX_REQUESTS recorded calls
\* in the window; a call that finds MAX_REQUESTS stamps inside the window
\* raises RateLimitExceeded and records no stamp, any other call is recorded,
\* and the stamps older than the window are discarded.
C23_AtMostMaxRequestsPerWindow ==
    /\ BagSize(request_timestamps) <= MAX_REQUESTS
    /\ gl.called =>
          /\ \A x \in DOMAIN request_timestamps : x > gl.at - REQUEST_WINDOW
          /\ IF InWindow(gl.before, gl.at) >= MAX_REQUESTS
               THEN /\ gl.exc = "RateLimitExceeded"
                    /\ BagSize(request_timestamps) = InWindow(gl.before, gl.at)
               ELSE /\ gl.exc = "none"
                    /\ BagSize(request_timestamps) = InWindow(gl.before, gl.at) + 1

\* A call made when time had passed since the recorded ones found the
\* window still full and was rejected
C23_Witness ==
    /\ gl.called
    /\ gl.exc = "RateLimitExceeded"
    /\ gl.at > 0
    /\ InWindow(gl.before, gl.at) = MAX_REQUESTS

\* The threats of the call that rule r contributed (each rule of the bank
\* has a category of its own)
ThreatsOfRule(r) ==
    {i \in DOMAIN threats : threats[i].category = THREAT_PATTERNS[r].category}

\* C24: in a call of analyze_patterns a rule of a category other than
\* social_engineering contributes at most one Threat, its scan ending at its
\* first accepted match; a social_engineering rule contributes one Threat
\* for each of its accepted matches, which do not overlap.
C24_OneThreatPerRuleButSocial ==
    \A r \in 1..NumRules :
        IF THREAT_PATTERNS[r].category # "social_engineering"
          THEN Cardinality(ThreatsOfRule(r)) <= 1
          ELSE Cardinality(ThreatsOfRule(r)) = Cardinality({threats[i].span : i \in ThreatsOfRule(r)})

\* A call returned with two threats of the social_engineering rule, each
\* for a match of its own
C24_Witness ==
    /\ ap_pc = "done"
    /\ \E r \in 1..NumRules :
          /\ THREAT_PATTERNS[r].category = "social_engineering"
          /\ Cardinality(ThreatsOfRule(r)) = 2

\* The alert `name` is unresolved and in its cooldown at time t
InCooldown(alerts, name, t) ==
    /\ name \in DOMAIN alerts
    /\ ~alerts[name].is_resolved
    /\ (t - alerts[name].last_triggered) < COOLDOWN_SECONDS

\* C25: a trigger of an alert that is unresolved and was last triggered less
\* than cooldown_seconds ago creates no notification task and leaves the
\* alert (its triggered_count included) as it was; any other trigger (first
\* trigger, resolved alert, cooldown elapsed) notifies, and counts when the
\* alert existed.
C25_CooldownSuppressesRepeat ==
    al.last.op = "trigger" =>
        LET name == al.last.name
            before == al.last.before
        IN  IF InCooldown(before, name, al.last.at)
              THEN /\ ~al.last.notified
                   /\ al.active_alerts = before
              ELSE /\ al.last.notified
                   /\ ~al.active_alerts[name].is_resolved
                   /\ al.active_alerts[name].last_triggered = al.last.at
                   /\ al.active_alerts[name].triggered_count =
                         IF name \in DOMAIN before
                           THEN before[name].triggered_count + 1 ELSE 1

\* An alert that had notified twice (the second time after its cooldown or
\* after resolve_alert) was triggered a third time inside the cooldown, and
\* that trigger was suppressed
C25_Witness ==
    /\ al.last.op = "trigger"
    /\ ~al.last.notified
    /\ InCooldown(al.last.before, al.last.name, al.last.at)
    /\ al.active_alerts[al.last.name].triggered_count = 2
    /\ al.tasks[al.last.name] = 2

\* C26: once the worker has ended after shutdown, the queue is empty and
\* every entry that log_event accepted has been inserted.
C26_FinalFlushDrainsQueue ==
    lg.pc = "stopped" =>
        /\ lg.queue = <<>>
        /\ \A e \in 1..lg.accepted : e \in lg.inserted
\* C27: with settings.gemini_enrichment_enabled false, analyze_text makes no
\* call of gemini_enrich, and a finished request returns the base score as
\* its risk_score.
C27_DisabledMakesNoEnrichmentCall ==
    ~gemini_enrichment_enabled =>
        /\ \A i \in 1..Len(enrich_log) : enrich_log[i].caller # "analyze_text"
        /\ ReqFinished =>
              (req.pc = "returned" /\ req.base_score >= 0 /\ req.risk_score = req.base_score)

\* C28: each request adds exactly 1 to DevStats.total_requests and to
\* MetricsCollector.total_requests, the request whose handler raised
\* included.
C28_EachRequestCountedOnce ==
    /\ mw.counts.stats.total_requests = mw.requests
    /\ mw.counts.metrics.total_requests = mw.requests
    /\ mw.last.kind # "none" =>
          /\ mw.counts.stats.total_requests = mw.before.stats.total_requests + 1
          /\ mw.counts.metrics.total_requests = mw.before.metrics.total_requests + 1

C30_DeniedLeavesStampsAdmittedAfterWindow ==
    ml.called =>
        /\ (ml.exc = "none" /\ ~ml.allowed) => ml.store.stamps = ml.before.stamps
        /\ (/\ Len(ml.before.stamps) >= ml.limit
            /\ ml.at - Head(ml.before.stamps) >= RATE_LIMIT_WINDOW_SECONDS)
              => (ml.exc = "none" /\ ml.allowed)

====
